---- MODULE Spec2Model ----
(***************************************************************************)
(* Verification model of davidsugianto/go-pkgs.                            *)
(*                                                                         *)
(*   logger      src/logger/logger.go          (zerolog wrapper, singleton)*)
(*   pagination  src/pagination/pagination.go  (page arithmetic)           *)
(*   response    src/response/response.go      (JSON envelope writers)       *)
(*   config      src/config/config.go          (JSON / YAML file loading)    *)
(*   httpclient  src/httpclient/httpclient.go  (request helpers)             *)
(*   grace       src/grace/grace.go            (graceful shutdown)           *)
(*   redis       src/unnamed/part_003          (go-redis wrapper)            *)
(*                                                                         *)
(* Goroutines are the members of a set of process ids; a call that takes   *)
(* a lock or runs under sync.Once is split into the steps between which    *)
(* another goroutine can run.                                              *)
(***************************************************************************)
EXTENDS Integers, Sequences, FiniteSets, TLC

VARIABLES
    heap,           \* the *Logger values allocated so far; a pointer is an index, 0 is nil
    settled,        \* history: per logger, the level of construction or of the last SetLevel that returned
    zGlobalLevel,   \* zerolog's process-wide level (zerolog.SetGlobalLevel)
    globalLogger,   \* var globalLogger *Logger
    globalOnce,     \* var globalOnce sync.Once
    sinks,          \* the lines written so far to each io.Writer
    pc,             \* per goroutine: where it stands in the call it is running ("exited": the process has ended)
    call,           \* per goroutine: the call it is running or ran last
    setGlobalArg,   \* history: the argument of the most recent SetGlobal, 0 before the first
    nDefault,       \* history: how many times the function given to globalOnce.Do has run
    pg,             \* the Pagination value the receiver points to
    pret,           \* the Pagination call that ran last: its input, the receiver before it, its result
    rw,             \* the http.ResponseWriter of the request being answered
    rcall,          \* the response call that ran last on rw: its arguments and its outcome
    cfile,          \* the file system: the file at the path the next config call is given
    cret,           \* the config call that ran last: its path, the file it found, its results
    hsent,          \* how many requests the HTTP client has put on the wire
    hret,           \* the HTTP client call that ran last: its request and what it returned
    hreply,         \* what the server answered to it
    gmain,          \* grace: the goroutine that called a Serve function
    gsrv,           \* grace: the http.Server
    gsig,           \* grace: the delivery of SIGINT and SIGTERM
    kv,             \* redis: the store, per key what the server holds
    kset,           \* history: per key, the wire form of the last value a Set stored, until the key is deleted or expires
    kret            \* the redis client call that ran last: its arguments, the driver's reply, its results

loggerVars == <<heap, settled, zGlobalLevel, globalLogger, globalOnce, sinks,
                pc, call, setGlobalArg, nDefault>>
pageVars == <<pg, pret>>
respVars == <<rw, rcall>>
configVars == <<cfile, cret>>
httpVars == <<hsent, hret, hreply>>
graceVars == <<gmain, gsrv, gsig>>
redisVars == <<kv, kset, kret>>
vars == <<loggerVars, pageVars, respVars, configVars, httpVars, graceVars, redisVars>>

\* the packages share no state: what a package's operations leave alone
notLoggerVars == <<pageVars, respVars, configVars, httpVars, graceVars, redisVars>>
notPageVars == <<loggerVars, respVars, configVars, httpVars, graceVars, redisVars>>
notRespVars == <<loggerVars, pageVars, configVars, httpVars, graceVars, redisVars>>
notConfigVars == <<loggerVars, pageVars, respVars, httpVars, graceVars, redisVars>>
notHTTPVars == <<loggerVars, pageVars, respVars, configVars, graceVars, redisVars>>
notGraceVars == <<loggerVars, pageVars, respVars, configVars, httpVars, redisVars>>
notRedisVars == <<loggerVars, pageVars, respVars, configVars, httpVars, graceVars>>

----------------------------------------------------------------------------
(* Bounds and input sets *)

NumProcs == 2
MaxLines == 1
\* how many envelopes a handler writes to one http.ResponseWriter
MaxEnvelopes == 2
\* how many requests the HTTP client sends
MaxRequests == 2
\* grace: signals delivered, requests in flight, seconds per step of the clock
MaxSignals == 2
MaxInflight == 1
TickSeconds == 10
\* redis: the longest expiration given to Set, the longest list
MaxTTL == 1
MaxListLen == 1
MaxPage == 1
MaxSize == 2
\* how many loggers a behaviour allocates, per specification
SingletonLoggers == 2
LevelLoggers == 2
ContextRoots == 1
ContextLoggers == 3
LockLoggers == 1
RaceLoggers == 2
ThresholdLoggers == 2

Procs == 1..NumProcs

----------------------------------------------------------------------------
(* pagination: src/pagination/pagination.go *)

DefaultPage == 1
DefaultPageSize == 20

Abs(x) == IF x < 0 THEN -x ELSE x

\* Go's integer division truncates toward zero
GoDiv(a, b) ==
    LET q == Abs(a) \div Abs(b)
    IN  IF (a < 0) # (b < 0) THEN -q ELSE q

ZeroPagination == [Page |-> 0, PageSize |-> 0, TotalData |-> 0, TotalPage |-> 0]

PageInputs == (-MaxPage)..MaxPage
PageSizeInputs == ((-1)..MaxSize) \cup {DefaultPageSize}
TotalInputs == {-20, -1, 0, 1, 20, 41, 61}

SetDefaultLoose(p) ==
    [p EXCEPT !.Page = IF p.Page <= 0 THEN DefaultPage ELSE p.Page,
              !.PageSize = IF p.PageSize <= 0 THEN DefaultPageSize ELSE p.PageSize]

SetDefaultResync(p) ==
    LET q == [p EXCEPT !.Page = IF p.Page = 0 THEN DefaultPage ELSE p.Page,
                       !.PageSize = IF p.PageSize = 0 THEN DefaultPageSize ELSE p.PageSize]
    IN  [q EXCEPT !.TotalPage = GoDiv(q.TotalData + q.PageSize - 1, q.PageSize)]

SetDefaultOf(p) ==
    [p EXCEPT !.Page = IF p.Page = 0 THEN DefaultPage ELSE p.Page,
              !.PageSize = IF p.PageSize = 0 THEN DefaultPageSize ELSE p.PageSize]

LimitOf(p) == p.PageSize

OffsetClamped(p) ==
    IF p.Page <= 0 THEN 0 ELSE (p.Page - 1) * p.PageSize

OffsetOf(p) == (p.Page - 1) * p.PageSize

TotalPageFloor(totalData, pageSize) == GoDiv(totalData, pageSize)

\* (totalData + p.PageSize - 1) / p.PageSize, for p.PageSize # 0
TotalPageOf(totalData, pageSize) == GoDiv(totalData + pageSize - 1, pageSize)

NoCall == [op |-> "none", n |-> 0, prev |-> ZeroPagination, copy |-> ZeroPagination,
           val |-> 0, panicked |-> FALSE]

PageInit ==
    /\ pg \in [Page : PageInputs, PageSize : PageSizeInputs, TotalData : {0}, TotalPage : {0}]
    /\ pret = NoCall

PageIdle ==
    /\ pg = ZeroPagination
    /\ pret = NoCall

SetDefault ==
    /\ pg' = SetDefaultOf(pg)
    /\ pret' = [NoCall EXCEPT !.op = "SetDefault", !.prev = pg, !.copy = SetDefaultOf(pg)]
    /\ UNCHANGED notPageVars

Limit ==
    /\ pret' = [NoCall EXCEPT !.op = "Limit", !.prev = pg, !.val = LimitOf(pg)]
    /\ UNCHANGED <<pg, notPageVars>>

Offset ==
    /\ pret' = [NoCall EXCEPT !.op = "Offset", !.prev = pg, !.val = OffsetOf(pg)]
    /\ UNCHANGED <<pg, notPageVars>>

SetTotalDivideFirst(totalData) ==
    /\ IF pg.PageSize = 0
         THEN /\ pg' = pg
              /\ pret' = [NoCall EXCEPT !.op = "SetTotal", !.n = totalData, !.prev = pg,
                                        !.panicked = TRUE]
         ELSE /\ pg' = [pg EXCEPT !.TotalData = totalData,
                                  !.TotalPage = TotalPageOf(totalData, pg.PageSize)]
              /\ pret' = [NoCall EXCEPT !.op = "SetTotal", !.n = totalData, !.prev = pg,
                                        !.copy = pg']
    /\ UNCHANGED notPageVars

\* line 29 runs before the division of line 30: a zero PageSize panics with
\* TotalData already written and TotalPage not yet
SetTotal(totalData) ==
    /\ IF pg.PageSize = 0
         THEN /\ pg' = [pg EXCEPT !.TotalData = totalData]
              /\ pret' = [NoCall EXCEPT !.op = "SetTotal", !.n = totalData, !.prev = pg,
                                        !.panicked = TRUE]
         ELSE /\ pg' = [pg EXCEPT !.TotalData = totalData,
                                  !.TotalPage = TotalPageOf(totalData, pg.PageSize)]
              /\ pret' = [NoCall EXCEPT !.op = "SetTotal", !.n = totalData, !.prev = pg,
                                        !.copy = pg']
    /\ UNCHANGED notPageVars

\* the fields are exported: a caller (or a form binder) assigns them directly
AssignPage(v) ==
    /\ pg' = [pg EXCEPT !.Page = v]
    /\ pret' = [NoCall EXCEPT !.op = "AssignPage", !.n = v, !.prev = pg]
    /\ UNCHANGED notPageVars

AssignPageSize(v) ==
    /\ pg' = [pg EXCEPT !.PageSize = v]
    /\ pret' = [NoCall EXCEPT !.op = "AssignPageSize", !.n = v, !.prev = pg]
    /\ UNCHANGED notPageVars

----------------------------------------------------------------------------
(* logger: src/logger/logger.go *)

\* zerolog.Level: the named levels
TraceLevel == -1
DebugLevel == 0
InfoLevel == 1
WarnLevel == 2
ErrorLevel == 3
FatalLevel == 4
PanicLevel == 5
Levels == {TraceLevel, DebugLevel, InfoLevel, WarnLevel, ErrorLevel, FatalLevel, PanicLevel}

\* the zero value of Config; "" is the empty string, "nil" the nil io.Writer,
\* Level 0 is both "not set" and zerolog.DebugLevel
ZeroConfig ==
    [Output |-> "nil", Level |-> 0, ServiceName |-> "", Environment |-> "",
     TraceIDFieldName |-> "", SpanIDFieldName |-> ""]

Writers == {"stderr", "buf"}

\* trace.SpanContext: the ids, 0 standing for the all-zero (absent) id
NoSpan == [tid |-> 0, sid |-> 0]
HasTraceID(c) == c.tid # 0
HasSpanID(c) == c.sid # 0
IsValidTraceOnly(c) == HasTraceID(c)
IsValid(c) == HasTraceID(c) /\ HasSpanID(c)

\* TraceID.String() / SpanID.String(): hex of 16 resp. 8 bytes, so the two
\* never coincide and distinct ids give distinct strings
TraceIDString(c) == <<"trace", c.tid>>
SpanIDString(c) == <<"span", c.sid>>

FreshMutex == [w |-> 0, r |-> {}]

LevelOrDefault(level) == IF level = 0 THEN InfoLevel ELSE level
OutputOrDefault(out) == IF out = "nil" THEN "stderr" ELSE out
TraceKeyOrDefault(name) == IF name = "" THEN "trace_id" ELSE name
SpanKeyOrDefault(name) == IF name = "" THEN "span_id" ELSE name

\* builder.Str("service", ...) and builder.Str("env", ...); a field value is a
\* pair <<text, id>> so that every value has one shape
ConfigFields(cfg) ==
    (IF cfg.ServiceName # "" THEN <<[key |-> "service", val |-> <<cfg.ServiceName, 0>>]>> ELSE <<>>)
    \o (IF cfg.Environment # "" THEN <<[key |-> "env", val |-> <<cfg.Environment, 0>>]>> ELSE <<>>)

\* the &Logger{...} that NewWithConfig returns
NewLogger(cfg) ==
    [ctx        |-> ConfigFields(cfg),
     out        |-> OutputOrDefault(cfg.Output),
     traceIDKey |-> TraceKeyOrDefault(cfg.TraceIDFieldName),
     spanIDKey  |-> SpanKeyOrDefault(cfg.SpanIDFieldName),
     level      |-> LevelOrDefault(cfg.Level),
     mu         |-> FreshMutex]

Ptrs == 1..Len(heap)

SpanFieldMapTraceOnly(l, c) ==
    [k \in {heap[l].traceIDKey} |-> TraceIDString(c)]

\* fields := make(map[string]interface{}) and its two conditional stores;
\* the second store overwrites the first when the two keys are equal
SpanFieldMap(l, c) ==
    LET keys == (IF HasTraceID(c) THEN {heap[l].traceIDKey} ELSE {})
                \cup (IF HasSpanID(c) THEN {heap[l].spanIDKey} ELSE {})
    IN  [k \in keys |-> IF HasSpanID(c) /\ k = heap[l].spanIDKey
                          THEN SpanIDString(c) ELSE TraceIDString(c)]

\* the orders in which "for key, value := range fields" can visit the map
RangeOrders(m) ==
    {s \in [1..Cardinality(DOMAIN m) -> DOMAIN m] :
        \A i, j \in DOMAIN s : i # j => s[i] # s[j]}

\* builder.Interface(key, value) for each visited entry
WithFields(ctx, m, order) ==
    ctx \o [i \in DOMAIN order |-> [key |-> order[i], val |-> m[order[i]]]]

ChildLogger(l, m, order) ==
    [ctx        |-> WithFields(heap[l].ctx, m, order),
     out        |-> heap[l].out,
     traceIDKey |-> heap[l].traceIDKey,
     spanIDKey  |-> heap[l].spanIDKey,
     level      |-> heap[l].level,
     mu         |-> FreshMutex]

ShouldByOwnLevel(l, lvl) == lvl >= heap[l].level

\* zerolog's filter for a logger made by zerolog.New (own level: trace)
Should(l, lvl) == lvl >= TraceLevel /\ lvl >= zGlobalLevel

\* the line an event of level lvl on logger l serialises to
LineOf(l, lvl) == [level |-> lvl, fields |-> heap[l].ctx]

TotalLines == Len(sinks["stderr"]) + Len(sinks["buf"])

NoOp == [op |-> "none", global |-> FALSE, self |-> 0, lvl |-> 0, ctx |-> NoSpan,
         ret |-> 0, wrote |-> FALSE]

LoggerInit ==
    /\ heap = <<>>
    /\ settled = <<>>
    /\ zGlobalLevel = DebugLevel
    /\ globalLogger = 0
    /\ globalOnce = [done |-> FALSE, m |-> 0]
    /\ sinks = [w \in Writers |-> <<>>]
    /\ pc = [p \in Procs |-> "idle"]
    /\ call = [p \in Procs |-> NoOp]
    /\ setGlobalArg = 0
    /\ nDefault = 0

----------------------------------------------------------------------------
(* logger: construction, emission, WithContext *)

Alloc(logger) ==
    /\ heap' = Append(heap, logger)
    /\ settled' = Append(settled, logger.level)

NewWithConfig(p, cfg) ==
    /\ pc[p] = "idle"
    /\ zGlobalLevel' = LevelOrDefault(cfg.Level)
    /\ Alloc(NewLogger(cfg))
    /\ call' = [call EXCEPT ![p] = [NoOp EXCEPT !.op = "NewWithConfig", !.lvl = cfg.Level,
                                                !.ret = Len(heap) + 1]]
    /\ UNCHANGED <<globalLogger, globalOnce, sinks, pc, setGlobalArg, nDefault, notLoggerVars>>

\* l.Logger.<Level>().Msg(...): the event is written when zerolog lets it
\* through; a fatal event ends the process whether it was written or not
EmitOn(p, l, lvl, viaGlobal) ==
    /\ Should(l, lvl) => TotalLines < MaxLines
    /\ sinks' = IF Should(l, lvl)
                  THEN [sinks EXCEPT ![heap[l].out] = Append(@, LineOf(l, lvl))]
                  ELSE sinks
    /\ call' = [call EXCEPT ![p] = [NoOp EXCEPT !.op = "Emit", !.global = viaGlobal, !.self = l,
                                                !.lvl = lvl, !.wrote = Should(l, lvl)]]
    /\ pc' = IF lvl = FatalLevel THEN [q \in Procs |-> "exited"] ELSE [pc EXCEPT ![p] = "idle"]
    /\ UNCHANGED <<heap, settled, zGlobalLevel, globalLogger, globalOnce, setGlobalArg,
                   nDefault, notLoggerVars>>

Emit(p, l, lvl) ==
    /\ pc[p] = "idle"
    /\ l \in Ptrs
    /\ EmitOn(p, l, lvl, FALSE)

\* l.level is read here without l.mu
WithContextOn(p, l, c, viaGlobal) ==
    /\ IF ~IsValid(c) \/ DOMAIN SpanFieldMap(l, c) = {}
         THEN /\ call' = [call EXCEPT ![p] = [NoOp EXCEPT !.op = "WithContext", !.global = viaGlobal,
                                                        !.self = l, !.ctx = c, !.ret = l]]
              /\ UNCHANGED <<heap, settled>>
         ELSE /\ \E order \in RangeOrders(SpanFieldMap(l, c)) :
                    Alloc(ChildLogger(l, SpanFieldMap(l, c), order))
              /\ call' = [call EXCEPT ![p] = [NoOp EXCEPT !.op = "WithContext", !.global = viaGlobal,
                                                        !.self = l, !.ctx = c, !.ret = Len(heap) + 1]]
    /\ pc' = [pc EXCEPT ![p] = "idle"]
    /\ UNCHANGED <<zGlobalLevel, globalLogger, globalOnce, sinks, setGlobalArg,
                   nDefault, notLoggerVars>>

WithContext(p, l, c) ==
    /\ pc[p] = "idle"
    /\ l \in Ptrs
    /\ WithContextOn(p, l, c, FALSE)

----------------------------------------------------------------------------
(* logger: GetLevel / SetLevel under l.mu (sync.RWMutex) *)

RLockUnguarded(l) == TRUE
RLockFree(l) == heap[l].mu.w = 0
LockFree(l) == heap[l].mu.w = 0 /\ heap[l].mu.r = {}

CallGetLevel(p, l) ==
    /\ pc[p] = "idle"
    /\ l \in Ptrs
    /\ pc' = [pc EXCEPT ![p] = "gl_rlock"]
    /\ call' = [call EXCEPT ![p] = [NoOp EXCEPT !.op = "GetLevel", !.self = l]]
    /\ UNCHANGED <<heap, settled, zGlobalLevel, globalLogger, globalOnce, sinks, setGlobalArg, nDefault, notLoggerVars>>

GetLevelRLock(p) ==
    /\ pc[p] = "gl_rlock"
    /\ RLockFree(call[p].self)
    /\ heap' = [heap EXCEPT ![call[p].self].mu.r = @ \cup {p}]
    /\ pc' = [pc EXCEPT ![p] = "gl_read"]
    /\ UNCHANGED <<settled, zGlobalLevel, globalLogger, globalOnce, sinks, call,
                   setGlobalArg, nDefault, notLoggerVars>>

GetLevelRead(p) ==
    /\ pc[p] = "gl_read"
    /\ call' = [call EXCEPT ![p].ret = heap[call[p].self].level]
    /\ pc' = [pc EXCEPT ![p] = "gl_runlock"]
    /\ UNCHANGED <<heap, settled, zGlobalLevel, globalLogger, globalOnce, sinks, setGlobalArg, nDefault, notLoggerVars>>

GetLevelRUnlock(p) ==
    /\ pc[p] = "gl_runlock"
    /\ heap' = [heap EXCEPT ![call[p].self].mu.r = @ \ {p}]
    /\ pc' = [pc EXCEPT ![p] = "idle"]
    /\ UNCHANGED <<settled, zGlobalLevel, globalLogger, globalOnce, sinks, call,
                   setGlobalArg, nDefault, notLoggerVars>>

CallSetLevel(p, l, lvl) ==
    /\ pc[p] = "idle"
    /\ l \in Ptrs
    /\ pc' = [pc EXCEPT ![p] = "sl_lock"]
    /\ call' = [call EXCEPT ![p] = [NoOp EXCEPT !.op = "SetLevel", !.self = l, !.lvl = lvl]]
    /\ UNCHANGED <<heap, settled, zGlobalLevel, globalLogger, globalOnce, sinks, setGlobalArg, nDefault, notLoggerVars>>

SetLevelLock(p) ==
    /\ pc[p] = "sl_lock"
    /\ LockFree(call[p].self)
    /\ heap' = [heap EXCEPT ![call[p].self].mu.w = p]
    /\ pc' = [pc EXCEPT ![p] = "sl_write"]
    /\ UNCHANGED <<settled, zGlobalLevel, globalLogger, globalOnce, sinks, call,
                   setGlobalArg, nDefault, notLoggerVars>>

SetLevelWrite(p) ==
    /\ pc[p] = "sl_write"
    /\ heap' = [heap EXCEPT ![call[p].self].level = call[p].lvl]
    /\ pc' = [pc EXCEPT ![p] = "sl_zglobal"]
    /\ UNCHANGED <<settled, zGlobalLevel, globalLogger, globalOnce, sinks, call,
                   setGlobalArg, nDefault, notLoggerVars>>

SetLevelGlobal(p) ==
    /\ pc[p] = "sl_zglobal"
    /\ zGlobalLevel' = call[p].lvl
    /\ pc' = [pc EXCEPT ![p] = "sl_unlock"]
    /\ UNCHANGED <<heap, settled, globalLogger, globalOnce, sinks, call,
                   setGlobalArg, nDefault, notLoggerVars>>

\* the deferred l.mu.Unlock(); SetLevel returns
SetLevelUnlock(p) ==
    /\ pc[p] = "sl_unlock"
    /\ heap' = [heap EXCEPT ![call[p].self].mu.w = 0]
    /\ settled' = [settled EXCEPT ![call[p].self] = call[p].lvl]
    /\ pc' = [pc EXCEPT ![p] = "idle"]
    /\ UNCHANGED <<zGlobalLevel, globalLogger, globalOnce, sinks, call,
                   setGlobalArg, nDefault, notLoggerVars>>

----------------------------------------------------------------------------
(* logger: the global instance, GetGlobal / SetGlobal and the helpers *)

\* the helpers are GetGlobal().<method>(...): "then" names the method that
\* runs on what GetGlobal returned ("none" for a plain GetGlobal call)
Helpers == {"none", "Emit", "WithContext", "SetLevel"}

CallGetGlobal(p, then, lvl, c) ==
    /\ pc[p] = "idle"
    /\ pc' = [pc EXCEPT ![p] = "once_check"]
    /\ call' = [call EXCEPT ![p] = [NoOp EXCEPT !.op = IF then = "none" THEN "GetGlobal" ELSE then,
                                                !.global = TRUE, !.lvl = lvl, !.ctx = c]]
    /\ UNCHANGED <<heap, settled, zGlobalLevel, globalLogger, globalOnce, sinks, setGlobalArg, nDefault, notLoggerVars>>

\* sync.Once.Do, fast path: done is already set
OnceCheck(p) ==
    /\ pc[p] = "once_check"
    /\ pc' = [pc EXCEPT ![p] = IF globalOnce.done THEN "gg_ret" ELSE "once_lock"]
    /\ UNCHANGED <<heap, settled, zGlobalLevel, globalLogger, globalOnce, sinks, call,
                   setGlobalArg, nDefault, notLoggerVars>>

OnceRunsAlways == TRUE
\* sync.Once.doSlow: with o.m held, f runs only if done is still unset
OnceRuns == ~globalOnce.done

OnceLock(p) ==
    /\ pc[p] = "once_lock"
    /\ globalOnce.m = 0
    /\ globalOnce' = [globalOnce EXCEPT !.m = p]
    /\ pc' = [pc EXCEPT ![p] = IF OnceRuns THEN "once_f" ELSE "once_unlock"]
    /\ UNCHANGED <<heap, settled, zGlobalLevel, globalLogger, sinks, call,
                   setGlobalArg, nDefault, notLoggerVars>>

\* f: globalLogger = New(); then the deferred o.done.Store(1)
OnceF(p) ==
    /\ pc[p] = "once_f"
    /\ zGlobalLevel' = LevelOrDefault(ZeroConfig.Level)
    /\ Alloc(NewLogger(ZeroConfig))
    /\ globalLogger' = Len(heap) + 1
    /\ nDefault' = nDefault + 1
    /\ globalOnce' = [globalOnce EXCEPT !.done = TRUE]
    /\ pc' = [pc EXCEPT ![p] = "once_unlock"]
    /\ UNCHANGED <<sinks, call, setGlobalArg, notLoggerVars>>

OnceUnlock(p) ==
    /\ pc[p] = "once_unlock"
    /\ globalOnce' = [globalOnce EXCEPT !.m = 0]
    /\ pc' = [pc EXCEPT ![p] = "gg_ret"]
    /\ UNCHANGED <<heap, settled, zGlobalLevel, globalLogger, sinks, call,
                   setGlobalArg, nDefault, notLoggerVars>>

\* return globalLogger; a helper goes on with its method on the value read
GetGlobalReturn(p) ==
    /\ pc[p] = "gg_ret"
    /\ call' = [call EXCEPT ![p].self = globalLogger,
                            ![p].ret = IF call[p].op = "GetGlobal" THEN globalLogger ELSE 0]
    /\ pc' = [pc EXCEPT ![p] = CASE call[p].op = "Emit" -> "emit"
                                 [] call[p].op = "WithContext" -> "wc"
                                 [] call[p].op = "SetLevel" -> "sl_lock"
                                 [] OTHER -> "idle"]
    /\ UNCHANGED <<heap, settled, zGlobalLevel, globalLogger, globalOnce, sinks, setGlobalArg, nDefault, notLoggerVars>>

\* Info = func() *zerolog.Event { return GetGlobal().Info() } and its siblings
GlobalEmit(p) ==
    /\ pc[p] = "emit"
    /\ EmitOn(p, call[p].self, call[p].lvl, TRUE)

\* func WithContext(ctx) *Logger { return GetGlobal().WithContext(ctx) }
GlobalWithContext(p) ==
    /\ pc[p] = "wc"
    /\ WithContextOn(p, call[p].self, call[p].ctx, TRUE)

SetGlobalMarksOnce(p, l) ==
    /\ pc[p] = "idle"
    /\ l \in Ptrs
    /\ globalLogger' = l
    /\ setGlobalArg' = l
    /\ globalOnce' = [globalOnce EXCEPT !.done = TRUE]
    /\ call' = [call EXCEPT ![p] = [NoOp EXCEPT !.op = "SetGlobal", !.self = l]]
    /\ UNCHANGED <<heap, settled, zGlobalLevel, sinks, pc, nDefault, notLoggerVars>>

\* globalLogger = logger, with no lock and no regard to globalOnce
SetGlobal(p, l) ==
    /\ pc[p] = "idle"
    /\ l \in Ptrs
    /\ globalLogger' = l
    /\ setGlobalArg' = l
    /\ call' = [call EXCEPT ![p] = [NoOp EXCEPT !.op = "SetGlobal", !.self = l]]
    /\ UNCHANGED <<heap, settled, zGlobalLevel, globalOnce, sinks, pc, nDefault, notLoggerVars>>

----------------------------------------------------------------------------
(* response: src/response/response.go *)

StatusOK == 200
StatusCreated == 201
StatusNoContent == 204
StatusBadRequest == 400
StatusUnauthorized == 401
StatusForbidden == 403
StatusNotFound == 404
StatusInternalServerError == 500

JSONContentType == "application/json"

\* the status codes a caller passes to JSON, Error and StatusCode: an invalid
\* one, an informational one, and final ones with and without a body
CodeInputs == {0, 100, StatusOK, StatusNoContent}
\* data interface{}: nil, a value that encodes, a nil pointer (encodes as
\* null), a value encoding/json cannot encode (a channel)
DataInputs == {"nil", "obj", "nilptr", "chan"}
\* err error: nil, an error with a message, an error whose message is empty
NilError == [isNil |-> TRUE, msg |-> ""]
ErrInputs == {NilError, [isNil |-> FALSE, msg |-> "boom"], [isNil |-> FALSE, msg |-> ""]}
MessageInputs == {"", "gone"}

\* the two http.ResponseWriter implementations the package is used with:
\* net/http's server response and httptest.ResponseRecorder
WriterKinds == {"server", "recorder"}

NewWriter(kind) ==
    [kind |-> kind,
     header |-> "",          \* w.Header()["Content-Type"]
     wroteHeader |-> FALSE,
     status |-> 0,           \* the status line sent
     sentHeader |-> "",      \* the Content-Type sent with the status line
     informational |-> FALSE, \* a 1xx response was sent before the status line
     body |-> <<>>]          \* the envelopes written to the body

NoResp == [op |-> "none", code |-> 0, data |-> "nil", err |-> NilError, msg |-> "",
           ret |-> "nil", panicked |-> FALSE, wrote |-> FALSE]

\* Response{Code: ..., Data: ..., Error: ...}
ResponseCodeOK(statusCode, data, errMsg) ==
    [Code |-> StatusOK, Data |-> data, Error |-> errMsg]

ResponseOf(statusCode, data, errMsg) ==
    [Code |-> statusCode, Data |-> data, Error |-> errMsg]

\* encoding/json on a Response: `code` always, `data` unless the interface is
\* nil (omitempty), `error` unless the string is empty (omitempty); a value of
\* an unsupported type makes Encode fail with nothing written
Encodable(resp) == resp.Data # "chan"

EncodeKeepEmpty(resp) ==
    [code |-> resp.Code, hasData |-> TRUE, data |-> "null",
     hasError |-> TRUE, error |-> resp.Error]

Encode(resp) ==
    [code |-> resp.Code,
     hasData |-> resp.Data # "nil",
     data |-> CASE resp.Data = "nil" -> "absent"
                [] resp.Data = "nilptr" -> "null"
                [] OTHER -> resp.Data,
     hasError |-> resp.Error # "",
     error |-> resp.Error]

\* w.Header().Set("Content-Type", v)
HeaderSet(w, v) == [w EXCEPT !.header = v]

ValidCode(code) == code >= 100 /\ code <= 999
Informational(code) == code >= 100 /\ code <= 199
BodyAllowed(status) == ~Informational(status) /\ status \notin {204, 304}

\* w.WriteHeader(code) with a valid code: ignored once the status line is out;
\* on the server a 1xx code sends an informational response and the status
\* line is still to come
WriteHeader(w, code) ==
    IF w.wroteHeader THEN w
    ELSE IF w.kind = "server" /\ Informational(code)
      THEN [w EXCEPT !.informational = TRUE]
      ELSE [w EXCEPT !.wroteHeader = TRUE, !.status = code, !.sentHeader = w.header]

WriteHeaderPanics(w, code) == ~w.wroteHeader /\ ~ValidCode(code)

\* w.Write(p): sends the status line with 200 if none was sent; the server
\* refuses a body on a status that allows none
Write(w, env) ==
    LET w1 == IF w.wroteHeader THEN w ELSE WriteHeader(w, StatusOK)
    IN  IF w1.kind = "server" /\ ~BodyAllowed(w1.status)
          THEN [w |-> w1, ret |-> "ErrBodyNotAllowed", wrote |-> FALSE]
          ELSE [w |-> [w1 EXCEPT !.body = Append(@, env)], ret |-> "nil", wrote |-> TRUE]

\* json.NewEncoder(w).Encode(resp)
EncodeTo(w, resp) ==
    IF Encodable(resp) THEN Write(w, Encode(resp))
    ELSE [w |-> w, ret |-> "UnsupportedTypeError", wrote |-> FALSE]

\* lines 15-16, 36-37, 71-72: the header, then the status line
WriteHeaderThenSet(w, statusCode) ==
    HeaderSet(WriteHeader(w, statusCode), JSONContentType)

SetThenWriteHeader(w, statusCode) ==
    WriteHeader(HeaderSet(w, JSONContentType), statusCode)

\* a writer function that sets the header, writes the status line and encodes
\* resp; a panic of WriteHeader leaves the header set and nothing else
Envelope(op, statusCode, resp, args) ==
    IF WriteHeaderPanics(rw, statusCode)
      THEN /\ rw' = HeaderSet(rw, JSONContentType)
           /\ rcall' = [args EXCEPT !.op = op, !.code = statusCode, !.panicked = TRUE]
      ELSE LET r == EncodeTo(SetThenWriteHeader(rw, statusCode), resp)
           IN  /\ rw' = r.w
               /\ rcall' = [args EXCEPT !.op = op, !.code = statusCode,
                                        !.ret = r.ret, !.wrote = r.wrote]

JSONOp(op, statusCode, data) ==
    /\ Envelope(op, statusCode, ResponseOf(statusCode, data, ""),
                [NoResp EXCEPT !.data = data])
    /\ UNCHANGED notRespVars

JSON(statusCode, data) == JSONOp("JSON", statusCode, data)
Success(data) == JSONOp("Success", StatusOK, data)
Created(data) == JSONOp("Created", StatusCreated, data)

NoContent ==
    /\ rw' = WriteHeader(rw, StatusNoContent)
    /\ rcall' = [NoResp EXCEPT !.op = "NoContent", !.code = StatusNoContent]
    /\ UNCHANGED notRespVars

\* lines 39-42
ErrMsgDropped(err) == ""

ErrMsgOf(err) == IF ~err.isNil THEN err.msg ELSE ""

ErrorOp(op, statusCode, err) ==
    /\ Envelope(op, statusCode, ResponseOf(statusCode, "nil", ErrMsgOf(err)),
                [NoResp EXCEPT !.err = err])
    /\ UNCHANGED notRespVars

Error(statusCode, err) == ErrorOp("Error", statusCode, err)
BadRequest(err) == ErrorOp("BadRequest", StatusBadRequest, err)
Unauthorized(err) == ErrorOp("Unauthorized", StatusUnauthorized, err)
Forbidden(err) == ErrorOp("Forbidden", StatusForbidden, err)
NotFound(err) == ErrorOp("NotFound", StatusNotFound, err)
InternalServerError(err) == ErrorOp("InternalServerError", StatusInternalServerError, err)

StatusCode(statusCode, message) ==
    /\ Envelope("StatusCode", statusCode, ResponseOf(statusCode, "nil", message),
                [NoResp EXCEPT !.msg = message])
    /\ UNCHANGED notRespVars

\* the next request: its handler gets a writer nothing was written to
NewRequest(kind) ==
    /\ rw' = NewWriter(kind)
    /\ rcall' = NoResp
    /\ UNCHANGED notRespVars

RespIdle ==
    /\ rw = NewWriter("recorder")
    /\ rcall = NoResp

RespInit ==
    /\ rw \in {NewWriter(k) : k \in WriterKinds}
    /\ rcall = NoResp

----------------------------------------------------------------------------
(* config: src/config/config.go *)

\* path: a sequence of path elements, "/" and "." separators and names
Paths ==
    { <<"config", ".", "json">>, <<"config", ".", "JSON">>, <<"config", ".", "yaml">>,
      <<"config", ".", "Yml">>, <<"config", ".", "txt">>, <<"config">>,
      <<"conf", ".", "json", "/", "app">>, <<"app", ".", "yaml", ".", "json">>,
      <<".", "json">>, <<"app", ".", "json", ".", "bak">> }

\* the file found at the path of a call: whether os.ReadFile succeeds, whether
\* its bytes are JSON (which is YAML too), YAML only, empty or neither, and
\* what it gives for app_name and port ("text": not a number)
Files ==
    [readable : BOOLEAN, syntax : {"json", "yaml", "empty", "garbage"},
     app_name : {"absent", "svc"}, port : {"absent", "8080", "text"}]

\* var config T, for T a struct { AppName string; Port int }
ZeroT == [AppName |-> "", Port |-> 0]

NoLoad == [op |-> "none", path |-> <<>>, file |-> CHOOSE f \in Files : TRUE,
           val |-> ZeroT, err |-> "nil", ext |-> <<>>, read |-> FALSE]

\* filepath.Ext: the suffix from the last "." of the last element, "" if none
Ext(path) ==
    LET dots == {i \in 1..Len(path) :
                    /\ path[i] = "."
                    /\ \A j \in i..Len(path) : path[j] # "/"}
    IN  IF dots = {} THEN <<>>
        ELSE LET i == CHOOSE d \in dots : \A e \in dots : e <= d
             IN  SubSeq(path, i, Len(path))

KeepCase(ext) == ext

ToLower(ext) ==
    [i \in 1..Len(ext) |->
        CASE ext[i] = "JSON" -> "json"
          [] ext[i] = "Yml" -> "yml"
          [] OTHER -> ext[i]]

\* json.Unmarshal / yaml.Unmarshal into the struct: a syntax error leaves the
\* target alone; a value of the wrong type is recorded as the error and
\* decoding goes on with the other fields
Parses(format, f) ==
    IF format = "json" THEN f.syntax = "json" ELSE f.syntax \in {"json", "yaml", "empty"}

UnmarshalAllOrNothing(format, f) ==
    IF Parses(format, f) /\ f.port # "text"
      THEN [val |-> [AppName |-> IF f.syntax = "empty" \/ f.app_name = "absent" THEN "" ELSE f.app_name,
                     Port |-> IF f.syntax = "empty" \/ f.port = "absent" THEN 0 ELSE 8080],
            ok |-> TRUE]
      ELSE [val |-> ZeroT, ok |-> FALSE]

Unmarshal(format, f) ==
    IF ~Parses(format, f) THEN [val |-> ZeroT, ok |-> FALSE]
    ELSE IF f.syntax = "empty" THEN [val |-> ZeroT, ok |-> TRUE]
    ELSE [val |-> [AppName |-> IF f.app_name = "absent" THEN "" ELSE f.app_name,
                   Port |-> IF f.port = "8080" THEN 8080 ELSE 0],
          ok |-> f.port # "text"]

\* the body LoadJSON and LoadYAML share
ReadAndDecode(op, format, path) ==
    LET u == Unmarshal(format, cfile)
        r == [NoLoad EXCEPT !.op = op, !.path = path, !.file = cfile, !.read = TRUE]
    IN  /\ cret' = IF ~cfile.readable THEN [r EXCEPT !.err = "failed to read config file"]
                   ELSE IF ~u.ok
                     THEN [r EXCEPT !.val = u.val,
                                    !.err = IF format = "json" THEN "failed to parse JSON config"
                                            ELSE "failed to parse YAML config"]
                     ELSE [r EXCEPT !.val = u.val]
        /\ UNCHANGED <<cfile, notConfigVars>>

LoadJSON(path) == ReadAndDecode("LoadJSON", "json", path)

LoadYAML(path) == ReadAndDecode("LoadYAML", "yaml", path)

Load(path) ==
    LET ext == ToLower(Ext(path))
    IN  IF ext = <<".", "json">> THEN ReadAndDecode("Load", "json", path)
        ELSE IF ext \in {<<".", "yaml">>, <<".", "yml">>} THEN ReadAndDecode("Load", "yaml", path)
        ELSE /\ cret' = [NoLoad EXCEPT !.op = "Load", !.path = path, !.file = cfile,
                                       !.err = "unsupported file format", !.ext = ext]
             /\ UNCHANGED <<cfile, notConfigVars>>

\* the file system changes between calls
WriteFile(f) ==
    /\ cfile' = f
    /\ UNCHANGED <<cret, notConfigVars>>

ConfigIdle ==
    /\ cfile = NoLoad.file
    /\ cret = NoLoad

----------------------------------------------------------------------------
(* httpclient: src/httpclient/httpclient.go *)

\* body interface{}: nil, a string, a []byte, a struct, a nil pointer (its
\* JSON encoding is null), a value encoding/json cannot encode
Bodies ==
    { [type |-> "nil", val |-> ""], [type |-> "string", val |-> "raw"],
      [type |-> "string", val |-> ""], [type |-> "bytes", val |-> "raw"],
      [type |-> "struct", val |-> "user"], [type |-> "nilptr", val |-> "null"],
      [type |-> "chan", val |-> ""] }
RawBodies == {b \in Bodies : b.type = "string"}
ContentTypes == {"", "application/xml"}
\* endpoint: one that gives a URL and one that does not parse
Endpoints == {"/users", "%zz"}
\* c.Headers["Content-Type"], "" if the client has no such default header
DefaultContentTypes == {"", "text/plain"}

\* what c.HTTPClient.Do gives: a transport error, or a response with a status
\* and a body; how much of the body io.ReadAll gets before the connection fails
Replies ==
    [failed : {TRUE}, status : {0}, body : {<<>>}, read : {0}]
      \cup [failed : {FALSE}, status : {200, 399, 400, 500}, body : {<<"not", "found">>},
            read : 0..2]

NoReq == [sent |-> FALSE, method |-> "", url |-> "", hasBody |-> FALSE,
          body |-> <<"raw", "">>, contentType |-> ""]
NoHTTP == [op |-> "none", arg |-> [type |-> "nil", val |-> ""], req |-> NoReq,
           resp |-> 0, respBody |-> <<>>, closed |-> FALSE,
           isErr |-> FALSE, errMsg |-> <<>>]

\* lines 53-68: the bytes of the request body and the content type
BodyReaderAllJSON(body, contentType) ==
    [hasBody |-> body.type # "nil", ok |-> body.type # "chan",
     body |-> <<"json", body.val>>, contentType |-> contentType]

BodyReader(body, contentType) ==
    CASE body.type \in {"string", "bytes"} ->
           [hasBody |-> TRUE, ok |-> TRUE, body |-> <<"raw", body.val>>,
            contentType |-> contentType]
      [] body.type = "nil" ->
           [hasBody |-> FALSE, ok |-> TRUE, body |-> <<"raw", "">>,
            contentType |-> contentType]
      [] body.type = "chan" ->
           [hasBody |-> FALSE, ok |-> FALSE, body |-> <<"raw", "">>,
            contentType |-> contentType]
      [] OTHER ->
           [hasBody |-> TRUE, ok |-> TRUE, body |-> <<"json", body.val>>,
            contentType |-> IF contentType = "" THEN "application/json" ELSE contentType]

\* line 89
IsErrorAbove(status) == status > 400

IsErrorStatus(status) == status >= 400

makeRequest(op, method, endpoint, body, contentType, defaultCT, reply) ==
    LET b == BodyReader(body, contentType)
        call0 == [NoHTTP EXCEPT !.op = op, !.arg = body]
        req == [sent |-> TRUE, method |-> method, url |-> <<"base", endpoint>>,
                hasBody |-> b.hasBody, body |-> b.body,
                contentType |-> IF b.hasBody /\ b.contentType # "" THEN b.contentType
                                ELSE defaultCT]
    IN  /\ hsent < MaxRequests
        /\ IF ~b.ok
             THEN /\ hret' = [call0 EXCEPT !.isErr = TRUE, !.errMsg = <<"json: unsupported type">>]
                  /\ hsent' = hsent
           ELSE IF endpoint = "%zz"
             THEN /\ hret' = [call0 EXCEPT !.isErr = TRUE, !.errMsg = <<"invalid URL escape">>]
                  /\ hsent' = hsent
           ELSE IF reply.failed
             THEN /\ hret' = [call0 EXCEPT !.req = req, !.isErr = TRUE,
                                           !.errMsg = <<"transport error">>]
                  /\ hsent' = hsent + 1
           ELSE IF IsErrorStatus(reply.status)
             THEN /\ hret' = [call0 EXCEPT !.req = req, !.isErr = TRUE,
                                           !.errMsg = SubSeq(reply.body, 1, reply.read),
                                           !.respBody = reply.body, !.closed = TRUE]
                  /\ hsent' = hsent + 1
           ELSE   /\ hret' = [call0 EXCEPT !.req = req, !.resp = reply.status,
                                           !.respBody = reply.body]
                  /\ hsent' = hsent + 1
        /\ hreply' = reply
        /\ UNCHANGED notHTTPVars

Get(endpoint, body, defaultCT, reply) ==
    makeRequest("Get", "GET", endpoint, body, "application/json", defaultCT, reply)
Post(endpoint, body, defaultCT, reply) ==
    makeRequest("Post", "POST", endpoint, body, "application/json", defaultCT, reply)
PostRaw(endpoint, rawBody, contentType, defaultCT, reply) ==
    makeRequest("PostRaw", "POST", endpoint, rawBody, contentType, defaultCT, reply)
Put(endpoint, body, defaultCT, reply) ==
    makeRequest("Put", "PUT", endpoint, body, "application/json", defaultCT, reply)
PutRaw(endpoint, rawBody, contentType, defaultCT, reply) ==
    makeRequest("PutRaw", "PUT", endpoint, rawBody, contentType, defaultCT, reply)
Delete(endpoint, body, defaultCT, reply) ==
    makeRequest("Delete", "DELETE", endpoint, body, "application/json", defaultCT, reply)

HTTPIdle ==
    /\ hsent = 0
    /\ hret = NoHTTP
    /\ hreply = CHOOSE r \in Replies : r.failed

----------------------------------------------------------------------------
(* grace: src/grace/grace.go *)

\* context.WithTimeout(context.Background(), 30*time.Second)
ShutdownTimeout == 30

ServeOps == {"ServeHTTP", "ServeHTTPS", "ServeServer", "ServeServerTLS"}

\* gmain: the goroutine that called a Serve function
\* gsrv: the http.Server: its listener goroutine, the requests in flight, its Shutdown
\* gsig: signal delivery: the registration of quit, the signals buffered in it
GraceInit ==
    /\ gmain = [pc |-> "idle", op |-> "none", ret |-> "none", drained |-> FALSE]
    /\ gsrv = [listen |-> "none", inflight |-> 0, inShutdown |-> FALSE, lnerr |-> "nil",
               elapsed |-> 0]
    /\ gsig = [registered |-> FALSE, quit |-> 0, delivered |-> 0]

Running == gmain.pc # "killed"

\* lines 13-19, 21-27: ServeHTTP and ServeHTTPS build the server and go on as
\* ServeServer and ServeServerTLS; lines 30-35, 40-45: the go statement
Serve(op) ==
    /\ gmain.pc = "idle"
    /\ gmain' = [gmain EXCEPT !.pc = "spawned", !.op = op]
    /\ gsrv' = [gsrv EXCEPT !.listen = "starting"]
    /\ UNCHANGED <<gsig, notGraceVars>>

\* the goroutine: ListenAndServe (ListenAndServeTLS) fails to start and the
\* error is logged, or serves, or finds the server shut down already and
\* returns http.ErrServerClosed, which is not logged
ListenAndServe(ok) ==
    /\ Running
    /\ gsrv.listen = "starting"
    /\ gsrv' = [gsrv EXCEPT !.listen = IF gsrv.inShutdown THEN "closed"
                                        ELSE IF ok THEN "listening" ELSE "failed, logged"]
    /\ UNCHANGED <<gmain, gsig, notGraceVars>>

\* lines 50-51
Notify ==
    /\ gmain.pc = "spawned"
    /\ gmain' = [gmain EXCEPT !.pc = "waiting"]
    /\ gsig' = [gsig EXCEPT !.registered = TRUE]
    /\ UNCHANGED <<gsrv, notGraceVars>>

\* a SIGINT or SIGTERM reaches the process: it ends the process while quit is
\* not registered; after, it is put in quit unless quit (capacity 1) is full
Signal ==
    /\ Running
    /\ gsig.delivered < MaxSignals
    /\ IF gsig.registered
         THEN /\ gsig' = [gsig EXCEPT !.delivered = @ + 1, !.quit = 1]
              /\ gmain' = gmain
         ELSE /\ gsig' = [gsig EXCEPT !.delivered = @ + 1]
              /\ gmain' = [gmain EXCEPT !.pc = "killed"]
    /\ UNCHANGED <<gsrv, notGraceVars>>

\* line 52: <-quit blocks until a signal is in quit
QuitOrListenerFailed == gsig.quit = 1 \/ gsrv.listen = "failed, logged"

QuitReady == gsig.quit = 1

ReceiveThenStop ==
    /\ gmain.pc = "waiting"
    /\ QuitReady
    /\ gsig' = [gsig EXCEPT !.quit = 0, !.registered = FALSE]
    /\ gmain' = [gmain EXCEPT !.pc = "shutdown"]
    /\ UNCHANGED <<gsrv, notGraceVars>>

Receive ==
    /\ gmain.pc = "waiting"
    /\ QuitReady
    /\ gsig' = [gsig EXCEPT !.quit = 0]
    /\ gmain' = [gmain EXCEPT !.pc = "shutdown"]
    /\ UNCHANGED <<gsrv, notGraceVars>>

\* lines 56-59: server.Shutdown(ctx) closes the listeners, which may fail, and
\* the 30 seconds start
ShutdownBegin(lnerr) ==
    /\ gmain.pc = "shutdown"
    /\ lnerr # "nil" => gsrv.listen = "listening"
    /\ gmain' = [gmain EXCEPT !.pc = "shutting down"]
    /\ gsrv' = [gsrv EXCEPT !.inShutdown = TRUE, !.lnerr = lnerr, !.elapsed = 0,
                            !.listen = IF @ = "listening" THEN "closed" ELSE @]
    /\ UNCHANGED <<gsig, notGraceVars>>

Accept ==
    /\ Running
    /\ gsrv.listen = "listening"
    /\ gsrv.inflight < MaxInflight
    /\ gsrv' = [gsrv EXCEPT !.inflight = @ + 1]
    /\ UNCHANGED <<gmain, gsig, notGraceVars>>

RequestDone ==
    /\ Running
    /\ gsrv.inflight > 0
    /\ gsrv' = [gsrv EXCEPT !.inflight = @ - 1]
    /\ UNCHANGED <<gmain, gsig, notGraceVars>>

Tick ==
    /\ gmain.pc = "shutting down"
    /\ gsrv.elapsed < ShutdownTimeout
    /\ gsrv' = [gsrv EXCEPT !.elapsed = @ + TickSeconds]
    /\ UNCHANGED <<gmain, gsig, notGraceVars>>

\* Shutdown returns the error of closing the listeners once no request is in
\* flight, the context's error once the deadline has passed; lines 59-65
ShutdownResultNil(drained) == "nil"

ShutdownResult(drained) ==
    IF drained THEN gsrv.lnerr ELSE "context deadline exceeded"

ShutdownReturn ==
    /\ gmain.pc = "shutting down"
    /\ gsrv.inflight = 0 \/ gsrv.elapsed >= ShutdownTimeout
    /\ gmain' = [gmain EXCEPT !.pc = "returned", !.drained = (gsrv.inflight = 0),
                              !.ret = ShutdownResult(gsrv.inflight = 0)]
    /\ UNCHANGED <<gsrv, gsig, notGraceVars>>

GraceIdle == GraceInit

----------------------------------------------------------------------------
(* redis: src/unnamed/part_003 (package redis, a wrapper of go-redis) *)

RedisKeys == {"k1", "k2"}
HashFields == {"f", "g"}
\* expirations given to Set, in seconds; 0 is "no expiration"
Expirations == 0..MaxTTL

\* errors are compared by identity: one string per error value
NoErr == "<nil>"
ErrKeyNotFound == "key not found"
ErrConnectionFailed == "connection failed"
\* go-redis: var Nil = proto.Nil, the reply of a command that found nothing
RedisNil == "redis: nil"
WrongType == "WRONGTYPE Operation against a key holding the wrong kind of value"
CantMarshal == "redis: can't marshal (implement encoding.BinaryMarshaler)"
DialError == "dial tcp: connect: connection refused"
IOTimeout == "i/o timeout"
MarshalError == "failed to marshal JSON: json: unsupported type"
UnmarshalError == "failed to unmarshal JSON"
\* what can go wrong between the client and the store
NoFault == "none"
ConnFaults == {DialError}
ReadFaults == {NoFault} \cup ConnFaults
\* a write may have been applied although its reply was lost
WriteFaults == ReadFaults \cup {IOTimeout}

\* the Go values given as interface{} to Set, SetJSON, HSet, LPush, RPush
GoString(s) == [type |-> "string", s |-> s, n |-> 0]
GoBytes(s) == [type |-> "bytes", s |-> s, n |-> 0]
GoInt(n) == [type |-> "int", s |-> "", n |-> n]
GoStruct(n) == [type |-> "struct", s |-> "", n |-> n]
GoChan == [type |-> "chan", s |-> "", n |-> 0]
ValueInputs == {GoString("a"), GoInt(1), GoStruct(1), GoChan}
ElemInputs == {GoString("a"), GoStruct(1)}
\* the types of the destinations given to GetJSON
Dests == {"string", "int", "struct"}

Itoa(n) ==
    CASE n = 0 -> "0" [] n = 1 -> "1" [] n = 2 -> "2" [] n = 3 -> "3" [] n = 4 -> "4"
      [] n = 5 -> "5" [] n = 6 -> "6" [] n = 7 -> "7" [] n = 8 -> "8" [] n = 9 -> "9"

\* go-redis writes a command argument: strings and bytes as they are, integers
\* in decimal, anything else only through encoding.BinaryMarshaler
AppendArg(value) ==
    CASE value.type = "string" -> [ok |-> TRUE, wire |-> value.s]
      [] value.type = "bytes" -> [ok |-> TRUE, wire |-> value.s]
      [] value.type = "int" -> [ok |-> TRUE, wire |-> Itoa(value.n)]
      [] OTHER -> [ok |-> FALSE, wire |-> ""]

Base64(s) == IF s = "a" THEN "YQ==" ELSE "..."

\* encoding/json.Marshal
Marshal(value) ==
    CASE value.type = "string" -> [ok |-> TRUE, wire |-> "\"" \o value.s \o "\""]
      [] value.type = "bytes" -> [ok |-> TRUE, wire |-> "\"" \o Base64(value.s) \o "\""]
      [] value.type = "int" -> [ok |-> TRUE, wire |-> Itoa(value.n)]
      [] value.type = "struct" -> [ok |-> TRUE, wire |-> "{\"id\":" \o Itoa(value.n) \o "}"]
      [] OTHER -> [ok |-> FALSE, wire |-> ""]

\* the JSON value a stored string is, for json.Unmarshal
JSONTypeOf(wire) ==
    IF wire \in {Marshal(GoString("a")).wire, Marshal(GoBytes("a")).wire} THEN "string"
    ELSE IF wire = Itoa(1) THEN "int"
    ELSE IF wire = Marshal(GoStruct(1)).wire THEN "struct"
    ELSE "invalid"

\* what the store holds at a key; ttl 0: no expiration, else the seconds left
Missing == "(nil)"
EmptyHash == [f \in HashFields |-> Missing]
NoEntry == [kind |-> "none", val |-> "", ttl |-> 0, hash |-> EmptyHash, list |-> <<>>]
StringEntry(val, ttl) == [NoEntry EXCEPT !.kind = "string", !.val = val, !.ttl = ttl]
HashEntry(hash) ==
    IF hash = EmptyHash THEN NoEntry ELSE [NoEntry EXCEPT !.kind = "hash", !.hash = hash]
ListEntry(list) ==
    IF list = <<>> THEN NoEntry ELSE [NoEntry EXCEPT !.kind = "list", !.list = list]

NoRedisCall ==
    [op |-> "none", key |-> "", val |-> "", found |-> FALSE, drv |-> NoErr, err |-> NoErr]
RedisCall(op, key, val, found, drv, err) ==
    [op |-> op, key |-> key, val |-> val, found |-> found, drv |-> drv, err |-> err]

RedisIdle ==
    /\ kv = [k \in RedisKeys |-> NoEntry]
    /\ kset = [k \in RedisKeys |-> Missing]
    /\ kret = NoRedisCall

FaultErr(fault) == IF fault = NoFault THEN NoErr ELSE fault

\* the driver and the server: GET
DriverGet(key, fault) ==
    IF fault # NoFault THEN [val |-> "", err |-> fault]
    ELSE IF kv[key].kind = "none" THEN [val |-> "", err |-> RedisNil]
    ELSE IF kv[key].kind # "string" THEN [val |-> "", err |-> WrongType]
    ELSE [val |-> kv[key].val, err |-> NoErr]

\* HGET
DriverHGet(key, field, fault) ==
    IF fault # NoFault THEN [val |-> "", err |-> fault]
    ELSE IF kv[key].kind = "none" THEN [val |-> "", err |-> RedisNil]
    ELSE IF kv[key].kind # "hash" THEN [val |-> "", err |-> WrongType]
    ELSE IF kv[key].hash[field] = Missing THEN [val |-> "", err |-> RedisNil]
    ELSE [val |-> kv[key].hash[field], err |-> NoErr]

\* LPOP (left) and RPOP
DriverPop(key, left, fault) ==
    IF fault # NoFault THEN [val |-> "", err |-> fault, list |-> kv[key].list]
    ELSE IF kv[key].kind = "none" THEN [val |-> "", err |-> RedisNil, list |-> <<>>]
    ELSE IF kv[key].kind # "list" THEN [val |-> "", err |-> WrongType, list |-> kv[key].list]
    ELSE LET l == kv[key].list IN
         IF left THEN [val |-> Head(l), err |-> NoErr, list |-> Tail(l)]
         ELSE [val |-> l[Len(l)], err |-> NoErr, list |-> SubSeq(l, 1, Len(l) - 1)]

Ping(fault) ==
    /\ kret' = RedisCall("Ping", "", "", FALSE, FaultErr(fault), FaultErr(fault))
    /\ UNCHANGED <<kv, kset, notRedisVars>>

\* SET key wire [EX expiration]
SetWire(op, key, wire, expiration, fault) ==
    IF fault \in ConnFaults
    THEN /\ kret' = RedisCall(op, key, wire, FALSE, fault, fault)
         /\ UNCHANGED <<kv, kset>>
    ELSE /\ kv' = [kv EXCEPT ![key] = StringEntry(wire, expiration)]
         /\ kset' = [kset EXCEPT ![key] = wire]
         /\ kret' = RedisCall(op, key, wire, FALSE, FaultErr(fault), FaultErr(fault))

RedisSet(key, value, expiration, fault) ==
    /\ LET arg == AppendArg(value) IN
       IF ~arg.ok
       THEN /\ kret' = RedisCall("Set", key, "", FALSE, CantMarshal, CantMarshal)
            /\ UNCHANGED <<kv, kset>>
       ELSE SetWire("Set", key, arg.wire, expiration, fault)
    /\ UNCHANGED notRedisVars

NotFoundOfAny(err) == IF err # NoErr THEN ErrKeyNotFound ELSE err

\* if err == redis.Nil { return "", ErrKeyNotFound }; return val, err
NotFoundOf(err) == IF err = RedisNil THEN ErrKeyNotFound ELSE err

GetAs(op, key, fault) ==
    LET r == DriverGet(key, fault) IN
    RedisCall(op, key, IF r.err = RedisNil THEN "" ELSE r.val, r.err = NoErr,
              r.err, NotFoundOf(r.err))

RedisGet(key, fault) ==
    /\ kret' = GetAs("Get", key, fault)
    /\ UNCHANGED <<kv, kset, notRedisVars>>

GetBytes(key, fault) ==
    /\ kret' = GetAs("GetBytes", key, fault)
    /\ UNCHANGED <<kv, kset, notRedisVars>>

RedisDelete(keys, fault) ==
    /\ keys # {}
    /\ IF fault \in ConnFaults
       THEN UNCHANGED <<kv, kset>>
       ELSE /\ kv' = [k \in RedisKeys |-> IF k \in keys THEN NoEntry ELSE kv[k]]
            /\ kset' = [k \in RedisKeys |-> IF k \in keys THEN Missing ELSE kset[k]]
    /\ kret' = RedisCall("Delete", CHOOSE k \in keys : TRUE, "", FALSE,
                         FaultErr(fault), FaultErr(fault))
    /\ UNCHANGED notRedisVars

Exists(keys, fault) ==
    /\ keys # {}
    /\ kret' = RedisCall("Exists", CHOOSE k \in keys : TRUE, "",
                         fault = NoFault /\ \E k \in keys : kv[k].kind # "none",
                         FaultErr(fault), FaultErr(fault))
    /\ UNCHANGED <<kv, kset, notRedisVars>>

SetJSON(key, value, expiration, fault) ==
    /\ LET jsonData == Marshal(value) IN
       IF ~jsonData.ok
       THEN /\ kret' = RedisCall("SetJSON", key, "", FALSE, NoErr, MarshalError)
            /\ UNCHANGED <<kv, kset>>
       ELSE SetWire("SetJSON", key, jsonData.wire, expiration, fault)
    /\ UNCHANGED notRedisVars

GetJSON(key, dest, fault) ==
    /\ LET r == GetAs("GetJSON", key, fault) IN
       IF r.err # NoErr THEN kret' = r
       ELSE IF JSONTypeOf(r.val) # dest
       THEN kret' = [r EXCEPT !.found = FALSE, !.err = UnmarshalError]
       ELSE kret' = r
    /\ UNCHANGED <<kv, kset, notRedisVars>>

\* a command that writes an element into the hash or the list at key; entry
\* is what the key holds once the command is applied
WriteElem(op, key, value, fault, kindWanted, entry) ==
    /\ LET arg == AppendArg(value) IN
       IF ~arg.ok
       THEN /\ kret' = RedisCall(op, key, "", FALSE, CantMarshal, CantMarshal)
            /\ UNCHANGED kv
       ELSE IF fault # NoFault
       THEN /\ kret' = RedisCall(op, key, arg.wire, FALSE, fault, fault)
            /\ UNCHANGED kv
       ELSE IF kv[key].kind \notin {"none", kindWanted}
       THEN /\ kret' = RedisCall(op, key, arg.wire, FALSE, WrongType, WrongType)
            /\ UNCHANGED kv
       ELSE /\ kret' = RedisCall(op, key, arg.wire, FALSE, NoErr, NoErr)
            /\ kv' = [kv EXCEPT ![key] = entry]
    /\ UNCHANGED <<kset, notRedisVars>>

HSet(key, field, value, fault) ==
    WriteElem("HSet", key, value, fault, "hash",
              HashEntry([kv[key].hash EXCEPT ![field] = AppendArg(value).wire]))

HGet(key, field, fault) ==
    /\ LET r == DriverHGet(key, field, fault) IN
       kret' = RedisCall("HGet", key, r.val, r.err = NoErr, r.err, r.err)
    /\ UNCHANGED <<kv, kset, notRedisVars>>

HDel(key, field, fault) ==
    /\ IF fault # NoFault
       THEN /\ kret' = RedisCall("HDel", key, "", FALSE, fault, fault)
            /\ UNCHANGED kv
       ELSE IF kv[key].kind \notin {"none", "hash"}
       THEN /\ kret' = RedisCall("HDel", key, "", FALSE, WrongType, WrongType)
            /\ UNCHANGED kv
       ELSE /\ kret' = RedisCall("HDel", key, "", FALSE, NoErr, NoErr)
            /\ kv' = [kv EXCEPT ![key] = HashEntry([kv[key].hash EXCEPT ![field] = Missing])]
    /\ UNCHANGED <<kset, notRedisVars>>

LPush(key, value, fault) ==
    /\ Len(kv[key].list) < MaxListLen
    /\ WriteElem("LPush", key, value, fault, "list",
                 ListEntry(<<AppendArg(value).wire>> \o kv[key].list))

RPush(key, value, fault) ==
    /\ Len(kv[key].list) < MaxListLen
    /\ WriteElem("RPush", key, value, fault, "list",
                 ListEntry(Append(kv[key].list, AppendArg(value).wire)))

Pop(op, key, left, fault) ==
    /\ LET r == DriverPop(key, left, fault) IN
       /\ kret' = RedisCall(op, key, r.val, r.err = NoErr, r.err, r.err)
       /\ kv' = IF r.err = NoErr THEN [kv EXCEPT ![key] = ListEntry(r.list)] ELSE kv
    /\ UNCHANGED <<kset, notRedisVars>>

LPop(key, fault) == Pop("LPop", key, TRUE, fault)

RPop(key, fault) == Pop("RPop", key, FALSE, fault)

\* a second passes: the server removes the keys whose expiration is reached
Expires(k) == kv[k].ttl = 1

Elapse ==
    /\ \E k \in RedisKeys : kv[k].ttl > 0
    /\ kv' = [k \in RedisKeys |->
                IF Expires(k) THEN NoEntry
                ELSE IF kv[k].ttl > 0 THEN [kv[k] EXCEPT !.ttl = @ - 1]
                ELSE kv[k]]
    /\ kset' = [k \in RedisKeys |-> IF Expires(k) THEN Missing ELSE kset[k]]
    /\ UNCHANGED <<kret, notRedisVars>>

----------------------------------------------------------------------------
(* Specifications *)

Main == 1

LoggerOnlyInit == LoggerInit /\ PageIdle /\ RespIdle /\ ConfigIdle /\ HTTPIdle /\ GraceIdle /\ RedisIdle

\* the singleton under concurrent callers, with the event helpers (the SetLevel
\* helper is part of SpecLevels, the WithContext helper of SpecContext)
SingletonNext ==
    \E p \in Procs :
        \/ Len(heap) < SingletonLoggers /\ NewWithConfig(p, ZeroConfig)
        \/ \E l \in Ptrs : SetGlobal(p, l)
        \/ \E then \in {"none", "Emit"} : CallGetGlobal(p, then, InfoLevel, NoSpan)
        \/ OnceCheck(p)
        \/ OnceLock(p)
        \/ OnceF(p)
        \/ OnceUnlock(p)
        \/ GetGlobalReturn(p)
        \/ GlobalEmit(p)

SpecSingleton == LoggerOnlyInit /\ [][SingletonNext]_vars

\* levels and filtering, one goroutine
LevelConfigs == {[ZeroConfig EXCEPT !.Level = l] : l \in Levels}

LevelsNext ==
    \/ Len(heap) < LevelLoggers /\ \E cfg \in LevelConfigs : NewWithConfig(Main, cfg)
    \/ \E l \in Ptrs, lvl \in Levels : Emit(Main, l, lvl)
    \/ \E l \in Ptrs, lvl \in Levels : CallSetLevel(Main, l, lvl)
    \/ SetLevelLock(Main)
    \/ SetLevelWrite(Main)
    \/ SetLevelGlobal(Main)
    \/ SetLevelUnlock(Main)
    \/ \E l \in Ptrs : CallGetLevel(Main, l)
    \/ GetLevelRLock(Main)
    \/ GetLevelRead(Main)
    \/ (globalOnce.done \/ Len(heap) < LevelLoggers) /\ CallGetGlobal(Main, "SetLevel", ErrorLevel, NoSpan)
    \/ OnceCheck(Main)
    \/ OnceLock(Main)
    \/ OnceF(Main)
    \/ OnceUnlock(Main)
    \/ GetGlobalReturn(Main)

SpecLevels == LoggerOnlyInit /\ [][LevelsNext]_vars

\* the process-wide threshold: constructions, SetLevel (method and helper),
\* children made by WithContext and emissions, one goroutine
\* debug is also the unset Config.Level, which becomes info
ThresholdLevels == {DebugLevel, WarnLevel}
EmitLevels == {InfoLevel, WarnLevel}

ThresholdNext ==
    \/ Len(heap) < ThresholdLoggers
          /\ \E lvl \in ThresholdLevels : NewWithConfig(Main, [ZeroConfig EXCEPT !.Level = lvl])
    \/ Len(heap) < ThresholdLoggers /\ \E l \in Ptrs : WithContext(Main, l, [tid |-> 1, sid |-> 1])
    \/ \E l \in Ptrs, lvl \in EmitLevels : Emit(Main, l, lvl)
    \/ \E l \in Ptrs, lvl \in ThresholdLevels : CallSetLevel(Main, l, lvl)
    \/ SetLevelLock(Main)
    \/ SetLevelWrite(Main)
    \/ SetLevelGlobal(Main)
    \/ SetLevelUnlock(Main)
    \/ (globalOnce.done \/ Len(heap) < ThresholdLoggers)
          /\ CallGetGlobal(Main, "SetLevel", WarnLevel, NoSpan)
    \/ OnceCheck(Main)
    \/ OnceLock(Main)
    \/ OnceF(Main)
    \/ OnceUnlock(Main)
    \/ GetGlobalReturn(Main)

SpecThreshold == LoggerOnlyInit /\ [][ThresholdNext]_vars

\* span correlation, one goroutine
\* no span, a trace id or a span id alone (invalid), and two spans of one trace
SpanContexts ==
    {NoSpan, [tid |-> 1, sid |-> 0], [tid |-> 0, sid |-> 1],
     [tid |-> 1, sid |-> 1], [tid |-> 1, sid |-> 2]}

NameConfigs ==
    {ZeroConfig,
     [ZeroConfig EXCEPT !.ServiceName = "svc", !.Environment = "prod", !.Output = "buf"],
     [ZeroConfig EXCEPT !.TraceIDFieldName = "tid", !.SpanIDFieldName = "sid", !.Level = WarnLevel],
     [ZeroConfig EXCEPT !.TraceIDFieldName = "id", !.SpanIDFieldName = "id"]}

ContextNext ==
    \/ Len(heap) < ContextRoots /\ \E cfg \in NameConfigs : NewWithConfig(Main, cfg)
    \/ Len(heap) < ContextLoggers /\ \E l \in Ptrs, c \in SpanContexts : WithContext(Main, l, c)
    \/ \E l \in Ptrs : Emit(Main, l, WarnLevel)
    \/ Len(heap) + (IF globalOnce.done THEN 0 ELSE 1) < ContextLoggers
          /\ \E c \in SpanContexts : CallGetGlobal(Main, "WithContext", InfoLevel, c)
    \/ OnceCheck(Main)
    \/ OnceLock(Main)
    \/ OnceF(Main)
    \/ OnceUnlock(Main)
    \/ GetGlobalReturn(Main)
    \/ GlobalWithContext(Main)

SpecContext == LoggerOnlyInit /\ [][ContextNext]_vars

\* the level field under concurrent callers
LockNext ==
    \E p \in Procs :
        \/ Len(heap) < LockLoggers /\ NewWithConfig(p, ZeroConfig)
        \/ \E l \in Ptrs, lvl \in {DebugLevel, WarnLevel} : CallSetLevel(p, l, lvl)
        \/ SetLevelLock(p)
        \/ SetLevelWrite(p)
        \/ SetLevelGlobal(p)
        \/ SetLevelUnlock(p)
        \/ \E l \in Ptrs : CallGetLevel(p, l)
        \/ GetLevelRLock(p)
        \/ GetLevelRead(p)
        \/ GetLevelRUnlock(p)

SpecLock == LoggerOnlyInit /\ [][LockNext]_vars

\* the level field read by WithContext while other goroutines set the level
RaceNext ==
    \E p \in Procs :
        \/ Len(heap) < LockLoggers /\ NewWithConfig(p, ZeroConfig)
        \/ Len(heap) < RaceLoggers /\ \E l \in Ptrs : WithContext(p, l, [tid |-> 1, sid |-> 1])
        \/ \E l \in Ptrs, lvl \in {DebugLevel, WarnLevel} : CallSetLevel(p, l, lvl)
        \/ SetLevelLock(p)
        \/ SetLevelWrite(p)
        \/ SetLevelGlobal(p)
        \/ SetLevelUnlock(p)
        \/ \E l \in Ptrs : CallGetLevel(p, l)
        \/ GetLevelRLock(p)
        \/ GetLevelRead(p)
        \/ GetLevelRUnlock(p)

SpecRace == LoggerOnlyInit /\ [][RaceNext]_vars

\* pagination
PaginationInit == LoggerInit /\ PageInit /\ RespIdle /\ ConfigIdle /\ HTTPIdle /\ GraceIdle /\ RedisIdle

PaginationNext ==
    \/ SetDefault
    \/ Limit
    \/ Offset
    \/ \E n \in TotalInputs : SetTotal(n)
    \/ \E v \in PageInputs : AssignPage(v)
    \/ \E v \in PageSizeInputs : AssignPageSize(v)

SpecPagination == PaginationInit /\ [][PaginationNext]_vars

\* response: one handler at a time answers a request on its writer
ResponseInit == LoggerInit /\ PageIdle /\ RespInit /\ ConfigIdle /\ HTTPIdle /\ GraceIdle /\ RedisIdle

ResponseNext ==
    \/ \E k \in WriterKinds : NewRequest(k)
    \/ NoContent
    \/ /\ Len(rw.body) < MaxEnvelopes
       /\ \/ \E c \in CodeInputs, d \in DataInputs : JSON(c, d)
          \/ \E d \in DataInputs : Success(d)
          \/ \E d \in DataInputs : Created(d)
          \/ \E c \in CodeInputs, e \in ErrInputs : Error(c, e)
          \/ \E e \in ErrInputs : BadRequest(e)
          \/ \E e \in ErrInputs : Unauthorized(e)
          \/ \E e \in ErrInputs : Forbidden(e)
          \/ \E e \in ErrInputs : NotFound(e)
          \/ \E e \in ErrInputs : InternalServerError(e)
          \/ \E c \in CodeInputs, m \in MessageInputs : StatusCode(c, m)

SpecResponse == ResponseInit /\ [][ResponseNext]_vars

\* config: calls of the loaders on the files of a file system that changes
ConfigInit == LoggerInit /\ PageIdle /\ RespIdle /\ ConfigIdle /\ HTTPIdle /\ GraceIdle /\ RedisIdle

ConfigNext ==
    \/ \E f \in Files : WriteFile(f)
    \/ \E path \in Paths : Load(path)
    \/ \E path \in Paths : LoadJSON(path)
    \/ \E path \in Paths : LoadYAML(path)

SpecConfig == ConfigInit /\ [][ConfigNext]_vars

\* httpclient: calls of the verb methods against a server that answers anything
HTTPInit == LoggerInit /\ PageIdle /\ RespIdle /\ ConfigIdle /\ HTTPIdle /\ GraceIdle /\ RedisIdle

HTTPNext ==
    \E e \in Endpoints, d \in DefaultContentTypes, r \in Replies :
        \/ \E b \in Bodies : Get(e, b, d, r)
        \/ \E b \in Bodies : Post(e, b, d, r)
        \/ \E b \in RawBodies, ct \in ContentTypes : PostRaw(e, b, ct, d, r)
        \/ \E b \in Bodies : Put(e, b, d, r)
        \/ \E b \in RawBodies, ct \in ContentTypes : PutRaw(e, b, ct, d, r)
        \/ \E b \in Bodies : Delete(e, b, d, r)

SpecHTTP == HTTPInit /\ [][HTTPNext]_vars

\* grace: a process that calls one Serve function
ServeInit == LoggerInit /\ PageIdle /\ RespIdle /\ ConfigIdle /\ HTTPIdle /\ GraceInit /\ RedisIdle

ServeNext ==
    \/ \E op \in ServeOps : Serve(op)
    \/ \E ok \in BOOLEAN : ListenAndServe(ok)
    \/ Notify
    \/ Signal
    \/ Receive
    \/ \E lnerr \in {"nil", "close error"} : ShutdownBegin(lnerr)
    \/ Accept
    \/ RequestDone
    \/ Tick
    \/ ShutdownReturn

\* the goroutines are scheduled and time passes; a request may never finish
SpecGrace ==
    /\ ServeInit /\ [][ServeNext]_vars
    /\ WF_vars(Notify) /\ WF_vars(Receive)
    /\ WF_vars(\E lnerr \in {"nil", "close error"} : ShutdownBegin(lnerr))
    /\ WF_vars(Tick) /\ WF_vars(ShutdownReturn)

\* the key-value client against a store, with connection faults and expiry
RedisInit == LoggerInit /\ PageIdle /\ RespIdle /\ ConfigIdle /\ HTTPIdle /\ GraceIdle /\ RedisIdle

RedisNext ==
    \/ \E fault \in ReadFaults : Ping(fault)
    \/ \E key \in RedisKeys, value \in ValueInputs, expiration \in Expirations,
          fault \in WriteFaults : RedisSet(key, value, expiration, fault)
    \/ \E key \in RedisKeys, fault \in ReadFaults : RedisGet(key, fault)
    \/ \E key \in RedisKeys, fault \in ReadFaults : GetBytes(key, fault)
    \/ \E keys \in SUBSET RedisKeys, fault \in WriteFaults : RedisDelete(keys, fault)
    \/ \E keys \in SUBSET RedisKeys, fault \in ReadFaults : Exists(keys, fault)
    \/ \E key \in RedisKeys, value \in ValueInputs, expiration \in Expirations,
          fault \in WriteFaults : SetJSON(key, value, expiration, fault)
    \/ \E key \in RedisKeys, dest \in Dests, fault \in ReadFaults : GetJSON(key, dest, fault)
    \/ \E key \in RedisKeys, field \in HashFields, value \in ElemInputs,
          fault \in ReadFaults : HSet(key, field, value, fault)
    \/ \E key \in RedisKeys, field \in HashFields, fault \in ReadFaults : HGet(key, field, fault)
    \/ \E key \in RedisKeys, field \in HashFields, fault \in ReadFaults : HDel(key, field, fault)
    \/ \E key \in RedisKeys, value \in ElemInputs, fault \in ReadFaults : LPush(key, value, fault)
    \/ \E key \in RedisKeys, value \in ElemInputs, fault \in ReadFaults : RPush(key, value, fault)
    \/ \E key \in RedisKeys, fault \in ReadFaults : LPop(key, fault)
    \/ \E key \in RedisKeys, fault \in ReadFaults : RPop(key, fault)
    \/ Elapse

SpecRedis == RedisInit /\ [][RedisNext]_vars

----------------------------------------------------------------------------
(* Claims: the global logger *)

\* C1 (as claimed): once SetGlobal(L) has been called, whatever GetGlobal
\* returns, to its caller or to the helper that called it, is the L of the most
\* recent SetGlobal, also when that SetGlobal came before the first GetGlobal.
C1_GetGlobalReturnsLastSet ==
    [][\A p \in Procs :
          (pc[p] = "gg_ret" /\ pc'[p] # "gg_ret" /\ setGlobalArg # 0)
              => call'[p].self = setGlobalArg]_vars

HasReturnedGlobal(p) ==
    /\ call[p].global
    /\ pc[p] \notin {"once_check", "once_lock", "once_f", "once_unlock", "gg_ret"}

\* C2: as long as SetGlobal has not been called, the function given to
\* globalOnce.Do has run at most once, and every GetGlobal that has returned,
\* from whichever goroutine, returned the one logger it built, never nil.
C2_DefaultBuiltOnce ==
    /\ nDefault <= 1
    /\ setGlobalArg = 0 =>
          \A p \in Procs :
              HasReturnedGlobal(p) =>
                  /\ nDefault = 1
                  /\ call[p].self # 0
                  /\ call[p].self \in 1..Len(heap)
                  /\ \A q \in Procs : HasReturnedGlobal(q) => call[q].self = call[p].self

C2_Witness ==
    /\ setGlobalArg = 0
    /\ call[1].op = "GetGlobal" /\ pc[1] = "idle" /\ call[1].ret # 0
    /\ call[2].op = "GetGlobal" /\ pc[2] = "idle" /\ call[2].ret = call[1].ret

----------------------------------------------------------------------------
(* Claims: levels *)

\* C3 (as claimed): the logger NewWithConfig returns for a Config whose Level
\* is L has level L (what GetLevel reads) and zerolog filters at L, for each of
\* the seven named levels.
C3_LevelAsConfigured ==
    (call[Main].op = "NewWithConfig" /\ call[Main].lvl \in Levels) =>
        /\ heap[call[Main].ret].level = call[Main].lvl
        /\ zGlobalLevel = call[Main].lvl

\* C4 (as claimed): an emission on a logger is written to the logger's writer
\* exactly when its level is at least the logger's level.
C4_FilterByOwnLevel ==
    (call[Main].op = "Emit" /\ pc[Main] # "exited") =>
        LET l == call[Main].self
            out == sinks[heap[l].out]
        IN  IF call[Main].lvl >= heap[l].level
              THEN /\ call[Main].wrote
                   /\ Len(out) > 0
                   /\ out[Len(out)].level = call[Main].lvl
              ELSE ~call[Main].wrote

\* C5: the value a GetLevel has read (it still holds the read lock) is the
\* level of the last SetLevel on that logger that has returned, or the level
\* the logger was constructed with if none has.
C5_GetLevelReadsSettled ==
    \A p \in Procs :
        pc[p] = "gl_runlock" => call[p].ret = settled[call[p].self]

C5_Witness ==
    \E p, q \in Procs :
        /\ pc[p] = "gl_runlock"
        /\ call[p].ret = WarnLevel
        /\ pc[q] = "sl_lock"
        /\ call[q].self = call[p].self
        /\ call[q].lvl = DebugLevel

----------------------------------------------------------------------------
(* Claims: WithContext *)

\* a step in which a WithContext call, direct or through the helper, returns
WithContextReturns ==
    /\ pc[Main] \in {"idle", "wc"}
    /\ pc'[Main] = "idle"
    /\ call'[Main].op = "WithContext"

CarriesSpan(c) == c.tid # 0 /\ c.sid # 0

\* the fields of every line a logger emits are its context fields; an id field
\* is one whose value is a trace id or a span id
NoIdField(fields) ==
    \A i \in DOMAIN fields : fields[i].val[1] \notin {"trace", "span"}

HasField(fields, key, val) ==
    \E i \in DOMAIN fields : fields[i].key = key /\ fields[i].val = val

\* C6 (as claimed): WithContext with no valid span returns the receiver, makes
\* no logger, and the lines of what it returns have no trace-id and no span-id
\* field.
C6_NoSpanNoIdFields ==
    [][(WithContextReturns /\ ~CarriesSpan(call'[Main].ctx)) =>
          /\ call'[Main].ret = call'[Main].self
          /\ heap' = heap
          /\ NoIdField(heap'[call'[Main].ret].ctx)]_vars

\* C6 (amended): WithContext with no valid span returns the receiver, makes no
\* logger, writes nothing and adds no field: the lines of what it returns have
\* the fields the receiver's lines had before, hence no trace-id or span-id
\* field if the receiver had none.
C6_NoSpanReturnsReceiver ==
    [][(WithContextReturns /\ ~CarriesSpan(call'[Main].ctx)) =>
          /\ call'[Main].ret = call'[Main].self
          /\ heap' = heap
          /\ sinks' = sinks
          /\ heap'[call'[Main].ret].ctx = heap[call'[Main].self].ctx
          /\ NoIdField(heap[call'[Main].self].ctx) => NoIdField(heap'[call'[Main].ret].ctx)]_vars

C6_Witness ==
    /\ call[Main].op = "WithContext"
    /\ pc[Main] = "idle"
    /\ call[Main].ctx = NoSpan
    /\ call[Main].ret = call[Main].self
    /\ ~NoIdField(heap[call[Main].ret].ctx)

\* C7 (as claimed): WithContext with a valid span returns a new logger whose
\* lines have the span's trace id under the trace field name and its span id
\* under the span field name; the receiver is as before and its lines still
\* have no trace-id or span-id field.
C7_SpanChildHasBothIds ==
    [][(WithContextReturns /\ CarriesSpan(call'[Main].ctx)) =>
          LET l == call'[Main].self
              r == call'[Main].ret
              c == call'[Main].ctx
          IN  /\ r # l
              /\ r \notin 1..Len(heap)
              /\ HasField(heap'[r].ctx, heap[l].traceIDKey, <<"trace", c.tid>>)
              /\ HasField(heap'[r].ctx, heap[l].spanIDKey, <<"span", c.sid>>)
              /\ heap'[l] = heap[l]
              /\ NoIdField(heap'[l].ctx)]_vars

\* C7 (amended): WithContext with a valid span returns a new logger whose lines
\* have the receiver's fields, then the span id under the span field name and,
\* if the two field names differ, the trace id under the trace field name (if
\* they are equal, no trace id at all); it has the receiver's level, field names
\* and writer. No logger that existed before is changed: the receiver's fields,
\* level and field names are as they were.
C7_SpanChildFrame ==
    [][(WithContextReturns /\ CarriesSpan(call'[Main].ctx)) =>
          LET l == call'[Main].self
              r == call'[Main].ret
              c == call'[Main].ctx
              added == SubSeq(heap'[r].ctx, Len(heap[l].ctx) + 1, Len(heap'[r].ctx))
          IN  /\ r = Len(heap) + 1
              /\ Len(heap') = Len(heap) + 1
              /\ \A i \in 1..Len(heap) : heap'[i] = heap[i]
              /\ SubSeq(heap'[r].ctx, 1, Len(heap[l].ctx)) = heap[l].ctx
              /\ HasField(added, heap[l].spanIDKey, <<"span", c.sid>>)
              /\ IF heap[l].traceIDKey # heap[l].spanIDKey
                   THEN HasField(added, heap[l].traceIDKey, <<"trace", c.tid>>) /\ Len(added) = 2
                   ELSE Len(added) = 1
              /\ heap'[r].level = heap[l].level
              /\ heap'[r].traceIDKey = heap[l].traceIDKey
              /\ heap'[r].spanIDKey = heap[l].spanIDKey
              /\ heap'[r].out = heap[l].out
              /\ sinks' = sinks]_vars

C7_Witness ==
    /\ call[Main].op = "WithContext"
    /\ pc[Main] = "idle"
    /\ call[Main].ctx = [tid |-> 1, sid |-> 2]
    /\ call[Main].ret # call[Main].self
    /\ heap[call[Main].self].level = WarnLevel
    /\ heap[call[Main].ret].level = WarnLevel
    /\ HasField(heap[call[Main].ret].ctx, "tid", <<"trace", 1>>)
    /\ HasField(heap[call[Main].ret].ctx, "sid", <<"span", 2>>)
    /\ NoIdField(heap[call[Main].self].ctx)

----------------------------------------------------------------------------
(* Claims: pagination *)

\* the least integer q with q * d >= n, for d > 0
CeilDiv(n, d) == CHOOSE q \in -100..100 : q * d >= n /\ (q - 1) * d < n

\* C8 (as claimed): SetTotal(n) on a positive PageSize sets TotalData to n and
\* TotalPage to ceil(n / PageSize), for every n, and returns a copy of the
\* updated receiver.
C8_TotalPageIsCeiling ==
    (pret.op = "SetTotal" /\ pret.prev.PageSize > 0) =>
        /\ pg.TotalData = pret.n
        /\ pg.TotalPage = CeilDiv(pret.n, pret.prev.PageSize)
        /\ pret.copy = pg

\* C8 (amended): the same for every n >= 0; with PageSize 20, 0 gives 0, 20
\* gives 1, 41 gives 3 and 61 gives 4; Page and PageSize are not touched.
C8_TotalPageIsCeilingNonNegative ==
    (pret.op = "SetTotal" /\ pret.prev.PageSize > 0 /\ pret.n >= 0) =>
        /\ ~pret.panicked
        /\ pg.TotalData = pret.n
        /\ pg.TotalPage = CeilDiv(pret.n, pret.prev.PageSize)
        /\ pret.copy = pg
        /\ pg.Page = pret.prev.Page /\ pg.PageSize = pret.prev.PageSize
        /\ pret.prev.PageSize = 20 =>
              /\ pret.n = 0 => pg.TotalPage = 0
              /\ pret.n = 20 => pg.TotalPage = 1
              /\ pret.n = 41 => pg.TotalPage = 3
              /\ pret.n = 61 => pg.TotalPage = 4

C8_Witness ==
    /\ pret.op = "SetTotal"
    /\ pret.prev.PageSize = 20
    /\ pret.n = 41
    /\ pg.TotalPage = 3
    /\ pret.copy = pg

\* C9: SetDefault turns a Page of 0 into 1 and a PageSize of 0 into 20 and
\* leaves every other value, negative ones too, and the totals as they are; it
\* returns a copy of the updated receiver; a SetDefault right after a
\* SetDefault changes nothing.
C9_SetDefaultOnlyZero ==
    /\ [](pret.op = "SetDefault" =>
            /\ pg.Page = (IF pret.prev.Page = 0 THEN 1 ELSE pret.prev.Page)
            /\ pg.PageSize = (IF pret.prev.PageSize = 0 THEN 20 ELSE pret.prev.PageSize)
            /\ pg.TotalData = pret.prev.TotalData
            /\ pg.TotalPage = pret.prev.TotalPage
            /\ pret.copy = pg)
    /\ [][(pret.op = "SetDefault" /\ pret'.op = "SetDefault") => pg' = pg]_vars

C9_Witness ==
    /\ pret.op = "SetDefault"
    /\ pret.prev.Page = 0
    /\ pret.prev.PageSize < 0
    /\ pg.Page = 1
    /\ pg.PageSize = pret.prev.PageSize

\* C10: Offset returns Page * PageSize - PageSize, negative when Page <= 0 and
\* PageSize > 0, Limit returns PageSize, and neither changes the receiver.
C10_OffsetLimit ==
    /\ pret.op = "Offset" =>
          /\ pret.val + pret.prev.PageSize = pret.prev.Page * pret.prev.PageSize
          /\ pg = pret.prev
    /\ pret.op = "Limit" =>
          /\ pret.val = pret.prev.PageSize
          /\ pg = pret.prev

C10_Witness ==
    /\ pret.op = "Offset"
    /\ pret.prev.Page < 0
    /\ pret.prev.PageSize = 20
    /\ pret.val = (pret.prev.Page - 1) * 20
    /\ pret.val < -20

----------------------------------------------------------------------------
(* Claims: response *)

LastEnvelope(w) == w.body[Len(w.body)]

\* a step in which a writer function wrote an envelope to the body
EnvelopeWritten == Len(rw'.body) = Len(rw.body) + 1

\* a step that is a call of a writer function
ResponseCall == (rw' # rw \/ rcall' # rcall) /\ rcall'.op # "none"

DataOps == {"JSON", "Success", "Created"}
ErrorOps == {"Error", "BadRequest", "Unauthorized", "Forbidden", "NotFound",
             "InternalServerError"}

\* C11 (as claimed): whatever calls were made on a writer, the code of every
\* envelope in its body is the HTTP status sent on it.
C11_CodeMirrorsStatus ==
    \A i \in 1..Len(rw.body) : rw.body[i].code = rw.status

\* C11 (amended): the code of an envelope is the statusCode of the call that
\* wrote it; it is the status sent if no status line was out before the call
\* and the code is 200 or more; a call on a writer whose status line is out
\* leaves the status sent as it was.
C11_CodeIsCallStatus ==
    [][EnvelopeWritten =>
          /\ LastEnvelope(rw').code = rcall'.code
          /\ (~rw.wroteHeader /\ rcall'.code >= 200) => rw'.status = LastEnvelope(rw').code
          /\ rw.wroteHeader => rw'.status = rw.status]_vars

C11_Witness ==
    /\ rcall.op = "Forbidden"
    /\ rcall.wrote
    /\ rw.kind = "server"
    /\ Len(rw.body) = 1
    /\ rw.body[1].code = 403
    /\ rw.status = 403

\* C12 (as claimed): every envelope in the body has exactly one of `data` and
\* `error`.
C12_ExactlyOnePayload ==
    \A i \in 1..Len(rw.body) : rw.body[i].hasData # rw.body[i].hasError

\* C12 (amended): no envelope has both; it has `data` exactly when JSON,
\* Success or Created was given data that is not nil, and `error` exactly when
\* the message is not empty (Error and its wrappers with a non-nil err whose
\* message is not empty, StatusCode with a non-empty message): otherwise it has
\* `code` alone.
C12_AtMostOnePayload ==
    [][EnvelopeWritten =>
          LET env == LastEnvelope(rw')
          IN  /\ ~(env.hasData /\ env.hasError)
              /\ env.hasData <=> (rcall'.op \in DataOps /\ rcall'.data # "nil")
              /\ env.hasError <=>
                    \/ rcall'.op \in ErrorOps /\ ~rcall'.err.isNil /\ rcall'.err.msg # ""
                    \/ rcall'.op = "StatusCode" /\ rcall'.msg # ""]_vars

C12_Witness ==
    /\ rcall.op = "Error"
    /\ rcall.err = NilError
    /\ rcall.wrote
    /\ ~LastEnvelope(rw).hasData
    /\ ~LastEnvelope(rw).hasError

\* C13 (as claimed): the call that sends the status line of a writer has set
\* Content-Type: application/json before, so the status line goes out with it,
\* and then writes an envelope to the body; for every writer function.
C13_HeaderStatusEnvelope ==
    [][(~rw.wroteHeader /\ rw'.wroteHeader) =>
          /\ rw'.sentHeader = "application/json"
          /\ EnvelopeWritten]_vars

\* C13 (amended): every writer function but NoContent sets the header before
\* the status line, and then writes an envelope to the body unless the data
\* cannot be encoded or the writer refuses a body for the status (net/http on
\* 204), in which case it returns the error and the body is as before.
\* NoContent sets no header and writes no body: its status line goes out with
\* the headers the handler had set.
C13_HeaderBeforeStatus ==
    [][(~rw.wroteHeader /\ rw'.wroteHeader) =>
          IF rcall'.op = "NoContent"
            THEN /\ rw'.sentHeader = rw.header
                 /\ rw'.header = rw.header
                 /\ rw'.body = rw.body
            ELSE /\ rw'.sentHeader = "application/json"
                 /\ EnvelopeWritten <=> rcall'.wrote
                 /\ rcall'.wrote <=> rcall'.ret = "nil"
                 /\ rcall'.wrote <=>
                       /\ rcall'.data # "chan"
                       /\ ~(rw.kind = "server" /\ rw'.status = 204)
                 /\ ~rcall'.wrote => rw'.body = rw.body]_vars

C13_Witness ==
    /\ rcall.op = "Created"
    /\ rcall.wrote
    /\ rw.status = 201
    /\ rw.sentHeader = "application/json"
    /\ Len(rw.body) = 1

DocumentedStatus ==
    [Success |-> 200, Created |-> 201, NoContent |-> 204, BadRequest |-> 400,
     Unauthorized |-> 401, Forbidden |-> 403, NotFound |-> 404,
     InternalServerError |-> 500]

----------------------------------------------------------------------------
(* Claims: config *)

JSONPaths == { <<"config", ".", "json">>, <<"config", ".", "JSON">>,
               <<"app", ".", "yaml", ".", "json">>, <<".", "json">> }
YAMLPaths == { <<"config", ".", "yaml">>, <<"config", ".", "Yml">> }

\* what the file gives for each field of the target, the zero value if nothing
FromFile(f) ==
    [AppName |-> IF f.syntax # "empty" /\ f.app_name = "svc" THEN "svc" ELSE "",
     Port |-> IF f.syntax # "empty" /\ f.port = "8080" THEN 8080 ELSE 0]

\* C15: Load of a path whose last element ends in .json, in any letter case,
\* reads the file and decodes it as JSON; .yaml and .yml, as YAML; any other
\* path, also one with no extension or with the extension on a directory, gives
\* the unsupported-format error with the lower-cased extension, the zero value,
\* and the file is not read, whether it exists or not.
C15_LoadByExtension ==
    cret.op = "Load" =>
        /\ cret.path \in JSONPaths =>
              /\ cret.read
              /\ cret.err \in {"nil", "failed to read config file", "failed to parse JSON config"}
              /\ (cret.file.readable /\ cret.file.syntax # "json") =>
                    cret.err = "failed to parse JSON config"
        /\ cret.path \in YAMLPaths =>
              /\ cret.read
              /\ cret.err \in {"nil", "failed to read config file", "failed to parse YAML config"}
              /\ (cret.file.readable /\ cret.file.syntax = "yaml" /\ cret.file.port # "text") =>
                    cret.err = "nil" /\ cret.val = FromFile(cret.file)
        /\ cret.path \notin JSONPaths \cup YAMLPaths =>
              /\ ~cret.read
              /\ cret.err = "unsupported file format"
              /\ cret.val = ZeroT
              /\ cret.path = <<"config", ".", "txt">> => cret.ext = <<".", "txt">>
              /\ cret.path = <<"app", ".", "json", ".", "bak">> => cret.ext = <<".", "bak">>
              /\ cret.path \in {<<"config">>, <<"conf", ".", "json", "/", "app">>} => cret.ext = <<>>

C15_Witness ==
    /\ cret.op = "Load"
    /\ cret.path = <<"config", ".", "txt">>
    /\ ~cret.file.readable
    /\ cret.err = "unsupported file format"
    /\ cret.ext = <<".", "txt">>
    /\ ~cret.read

\* C16 (as claimed): a loader that returns an error returns the zero value of
\* T, and one that returns no error returns what the file gives.
C16_ZeroOnError ==
    cret.op # "none" =>
        IF cret.err # "nil" THEN cret.val = ZeroT ELSE cret.val = FromFile(cret.file)

\* C16 (amended): the zero value of T is returned with the unsupported-format
\* error, a read failure and a syntax error; a decode error for a value of the
\* wrong type (port: "text") comes with the target populated from the other
\* fields of the file; no error, with the target populated from the file.
C16_ZeroUnlessTypeError ==
    cret.op # "none" =>
        /\ cret.err \in {"unsupported file format", "failed to read config file"} =>
              cret.val = ZeroT
        /\ cret.err \in {"failed to parse JSON config", "failed to parse YAML config"} =>
              IF /\ cret.file.port = "text"
                 /\ \/ cret.file.syntax = "json"
                    \/ cret.file.syntax = "yaml" /\ cret.err = "failed to parse YAML config"
                THEN cret.val = [FromFile(cret.file) EXCEPT !.Port = 0]
                ELSE cret.val = ZeroT
        /\ cret.err = "nil" => cret.val = FromFile(cret.file) /\ cret.file.readable
        /\ (cret.read /\ ~cret.file.readable) => cret.err = "failed to read config file"

C16_Witness ==
    /\ cret.op = "LoadYAML"
    /\ cret.file = [readable |-> TRUE, syntax |-> "yaml", app_name |-> "svc", port |-> "text"]
    /\ cret.err = "failed to parse YAML config"
    /\ cret.val = [AppName |-> "svc", Port |-> 0]

----------------------------------------------------------------------------
(* Claims: httpclient *)

C18_BodyAsGiven ==
    /\ [](hret.op # "none" =>
            /\ (hret.req.sent /\ hret.arg.type \in {"string", "bytes"}) =>
                  hret.req.hasBody /\ hret.req.body = <<"raw", hret.arg.val>>
            /\ (hret.req.sent /\ hret.arg.type \in {"struct", "nilptr"}) =>
                  hret.req.hasBody /\ hret.req.body = <<"json", hret.arg.val>>
            /\ (hret.req.sent /\ hret.arg.type = "nil") => ~hret.req.hasBody
            /\ hret.arg.type = "chan" =>
                  ~hret.req.sent /\ hret.isErr /\ hret.resp = 0)
    /\ [][hret'.arg.type = "chan" => hsent' = hsent]_vars

C18_Witness ==
    /\ hret.op = "Post"
    /\ hret.arg.type = "chan"
    /\ hret.isErr
    /\ ~hret.req.sent
    /\ hsent = 1

----------------------------------------------------------------------------
(* Claims: grace *)

SignalReceived == gmain.pc \in {"shutdown", "shutting down", "returned"}

\* C19 (as claimed): a Serve function that has returned has received a signal
\* before, and it returned nil if no request was in flight any more when
\* Shutdown ended, the error of Shutdown otherwise, which comes no earlier than
\* 30 seconds after Shutdown began; once the signal is received the function
\* does return.
C19_ReturnsNilWhenDrained ==
    /\ [](gmain.pc = "returned" =>
            /\ gsig.delivered >= 1
            /\ gmain.drained => gmain.ret = "nil"
            /\ ~gmain.drained => (gmain.ret # "nil" /\ gsrv.elapsed >= 30))
    /\ (SignalReceived ~> gmain.pc = "returned")

\* C19 (amended): a Serve function that has returned has received a signal
\* before and returns what Shutdown returned: if no request was in flight any
\* more, the error of closing the listeners, nil unless that failed; otherwise
\* the context's deadline error, no earlier than 30 seconds after Shutdown
\* began; once the signal is received the function does return.
C19_ReturnsShutdownResult ==
    /\ [](gmain.pc = "returned" =>
            /\ gsig.delivered >= 1
            /\ gmain.drained => gmain.ret = gsrv.lnerr
            /\ ~gmain.drained =>
                  /\ gmain.ret = "context deadline exceeded"
                  /\ gsrv.elapsed >= 30
            /\ gmain.ret = "nil" => gmain.drained)
    /\ (SignalReceived ~> gmain.pc = "returned")

C19_Witness ==
    /\ gmain.pc = "returned"
    /\ gmain.op = "ServeServerTLS"
    /\ gmain.ret = "context deadline exceeded"
    /\ gsrv.inflight = 1
    /\ gsrv.elapsed >= 30

\* C20: when the listener failed to start, the error is logged and the Serve
\* function stays blocked until a signal is in quit; when it has returned, a
\* signal was delivered and it returned the result of Shutdown, which is nil,
\* no listener and no request being there.
C20_StartupErrorOnlyLogged ==
    /\ []((gsrv.listen = "failed, logged" /\ gmain.pc = "returned") =>
            /\ gsig.delivered >= 1
            /\ gmain.ret = "nil"
            /\ gsrv.inflight = 0)
    /\ [][(gsrv.listen = "failed, logged" /\ gmain.pc = "waiting" /\ gmain'.pc # "waiting") =>
            gsig.quit = 1 /\ gmain'.pc = "shutdown"]_vars

C20_Witness ==
    /\ gsrv.listen = "failed, logged"
    /\ gmain.op = "ServeServer"
    /\ gmain.pc = "returned"
    /\ gmain.ret = "nil"
    /\ gsig.delivered = 1

----------------------------------------------------------------------------
(* redis: claims *)

ReadStringOps == {"Get", "GetBytes", "GetJSON"}
ReadOneOps == ReadStringOps \cup {"HGet", "LPop", "RPop"}

\* C21: a Get, GetBytes or GetJSON on a key the store does not hold returns
\* ErrKeyNotFound unless the connection failed; one that succeeds returns the
\* wire form of the value the last Set stored at the key, which is still
\* there (not deleted, not expired); an error of the driver other than its
\* nil reply comes back as it is, and ErrKeyNotFound is returned for a key
\* the store does not hold only.
C21_NotFoundSentinel ==
    [][(kret' # kret /\ kret'.op \in ReadStringOps) =>
          LET k == kret'.key IN
          /\ kv[k].kind = "none" =>
                \/ kret'.err = ErrKeyNotFound
                \/ kret'.err \in ConnFaults /\ kret'.err = kret'.drv
          /\ kset[k] = Missing /\ kv[k].kind = "none" /\ kret'.drv \notin ConnFaults =>
                kret'.err = ErrKeyNotFound
          /\ kret'.err = NoErr => kset[k] # Missing /\ kret'.val = kset[k]
          /\ kret'.drv \notin {NoErr, RedisNil} => kret'.err = kret'.drv
          /\ kret'.err = ErrKeyNotFound => kv[k].kind = "none" /\ kset[k] = Missing
          /\ kret'.err # RedisNil]_vars

C21_Witness ==
    /\ kret.op = "GetJSON"
    /\ kret.err = ErrKeyNotFound
    /\ kv[kret.key].kind = "none"
    /\ \E k \in RedisKeys : kset[k] # Missing /\ kv[k].ttl = 1

\* C27: Get, GetBytes, GetJSON, HGet, LPop and RPop report a missing key,
\* field or element as ErrKeyNotFound and never return the driver's nil-reply
\* error.
C27_MissingIsKeyNotFound ==
    kret.op \in ReadOneOps =>
        /\ kret.drv = RedisNil => kret.err = ErrKeyNotFound
        /\ kret.err # RedisNil

\* C28: an operation that failed because the connection to the store failed
\* returns ErrConnectionFailed.
C28_ConnectionFailedSentinel ==
    kret.drv = DialError => kret.err = ErrConnectionFailed

----------------------------------------------------------------------------
(* logger: claims on the shared threshold, the global pointer and the lock *)

\* the step is a NewWithConfig (New included) that returned logger Len(heap')
Constructs ==
    /\ Len(heap') = Len(heap) + 1
    /\ \/ call'[Main].op = "NewWithConfig" /\ call'[Main].ret = Len(heap')
       \/ pc[Main] = "once_f"

\* C22: the threshold that filters every logger's output changes only when a
\* logger is constructed, to that logger's level, and when SetLevel runs on
\* any logger, to its argument; when SetLevel returns the threshold is its
\* argument; an emission on any logger is written exactly when its level is
\* at least the threshold, whatever the logger's own level is.
C22_SharedThreshold ==
    /\ [][Constructs => zGlobalLevel' = heap'[Len(heap')].level]_vars
    /\ [][(pc[Main] = "sl_unlock" /\ pc'[Main] = "idle") =>
             zGlobalLevel' = call[Main].lvl /\ heap'[call[Main].self].level = call[Main].lvl]_vars
    /\ [][zGlobalLevel' # zGlobalLevel =>
             \/ Constructs
             \/ pc[Main] = "sl_zglobal" /\ call[Main].op = "SetLevel"
                   /\ zGlobalLevel' = call[Main].lvl]_vars
    /\ [][(sinks' # sinks \/ (call'[Main].op = "Emit" /\ call'[Main] # call[Main])) =>
             /\ call'[Main].op = "Emit"
             /\ call'[Main].wrote = (call'[Main].lvl >= zGlobalLevel)
             /\ call'[Main].wrote = (sinks' # sinks)
             /\ call'[Main].wrote =>
                   sinks'[heap[call'[Main].self].out] =
                       Append(sinks[heap[call'[Main].self].out],
                              LineOf(call'[Main].self, call'[Main].lvl))]_vars

C22_Witness ==
    /\ call[Main].op = "Emit"
    /\ call[Main].wrote
    /\ call[Main].lvl < heap[call[Main].self].level
    /\ \E l \in Ptrs : l # call[Main].self /\ heap[l].level = zGlobalLevel

\* the step is the guarded write of the lazy first construction, by the
\* goroutine that holds globalOnce's mutex
LazyConstruction ==
    \E p \in Procs : pc[p] = "once_f" /\ pc'[p] = "once_unlock" /\ globalOnce.m = p

\* C23: the global pointer is written by the lazy first construction, under
\* globalOnce, and by SetGlobal, which stores its argument at once, whoever
\* holds globalOnce's mutex and whichever goroutine is inside GetGlobal, and
\* leaves globalOnce alone; a GetGlobal or helper returns or works on what the
\* pointer holds at the moment it reads it, the old logger or the new one.
C23_SetGlobalUnsynchronized ==
    /\ [][(globalLogger' # globalLogger /\ ~LazyConstruction) =>
             /\ \E p \in Procs : /\ pc[p] = "idle"
                                 /\ call'[p].op = "SetGlobal"
                                 /\ call'[p].self = globalLogger'
             /\ setGlobalArg' = globalLogger'
             /\ globalOnce' = globalOnce
             /\ pc' = pc]_vars
    /\ [][setGlobalArg' # setGlobalArg => globalLogger' = setGlobalArg' /\ globalOnce' = globalOnce]_vars
    /\ [][\A p \in Procs : (pc[p] = "gg_ret" /\ pc'[p] # "gg_ret") =>
             call'[p].self = globalLogger]_vars

\* a SetGlobal has replaced the default logger while the goroutine that built
\* it is still inside globalOnce.Do, holding its mutex, and another goroutine
\* is inside GetGlobal about to read the pointer
C23_Witness ==
    \E p, q \in Procs :
        /\ p # q
        /\ pc[p] = "once_unlock"
        /\ globalOnce.m = p
        /\ nDefault = 1
        /\ setGlobalArg # 0
        /\ globalLogger = setGlobalArg
        /\ call[q].op = "SetGlobal"

\* C24: the level field of a logger is read and written only by a goroutine
\* that holds the logger's lock: GetLevel reads it under the read lock,
\* SetLevel writes it under the write lock, and WithContext copies it into
\* the child under the lock, never while a SetLevel holds the write lock.
C24_LevelAccessUnderLock ==
    [][\A p \in Procs :
          /\ (pc[p] = "gl_read" /\ pc'[p] = "gl_runlock") => p \in heap[call[p].self].mu.r
          /\ (pc[p] = "sl_write" /\ pc'[p] = "sl_zglobal") => heap[call[p].self].mu.w = p
          /\ (pc[p] = "idle" /\ call'[p].op = "WithContext" /\ call'[p].ret = Len(heap')
                /\ Len(heap') = Len(heap) + 1) =>
                \/ p \in heap[call'[p].self].mu.r
                \/ heap[call'[p].self].mu.w = p]_vars

----------------------------------------------------------------------------
(* pagination: claims on the derived field *)

\* C25: SetDefault, Limit, Offset and assignments to Page or PageSize leave
\* TotalData and TotalPage as they were; SetTotal leaves Page and PageSize as
\* they were; so TotalPage is the ceiling of TotalData / PageSize (for
\* TotalData >= 0 and PageSize > 0) right after a SetTotal that returned, and
\* after that it keeps that value whatever happens to PageSize.
C25_TotalPageOnlyBySetTotal ==
    /\ pret.op \in {"SetDefault", "Limit", "Offset", "AssignPage", "AssignPageSize"} =>
          /\ pg.TotalData = pret.prev.TotalData
          /\ pg.TotalPage = pret.prev.TotalPage
    /\ pret.op = "SetTotal" =>
          /\ pg.Page = pret.prev.Page
          /\ pg.PageSize = pret.prev.PageSize
          /\ (~pret.panicked /\ pg.TotalData >= 0 /\ pg.PageSize > 0) =>
                pg.TotalPage = CeilDiv(pg.TotalData, pg.PageSize)
    /\ pret.op = "none" => pg.TotalData = 0 /\ pg.TotalPage = 0

\* a stale TotalPage: SetDefault ran on a page size changed after SetTotal
C25_Witness ==
    /\ pret.op = "SetDefault"
    /\ pg.TotalData > 0
    /\ pg.PageSize > 0
    /\ pg.TotalPage # CeilDiv(pg.TotalData, pg.PageSize)
    /\ pg.TotalPage = CeilDiv(pg.TotalData, 20)

\* C26: SetTotal panics exactly when PageSize is 0; the panic leaves TotalData
\* overwritten with n and TotalPage, Page and PageSize as they were; SetDefault
\* leaves PageSize non-zero, and a non-zero PageSize becomes 0 only by an
\* assignment of 0, so a SetTotal after SetDefault with no such assignment
\* in between does not panic.
C26_PanicOnZeroPageSize ==
    /\ [](pret.op = "SetTotal" =>
            /\ pret.panicked = (pret.prev.PageSize = 0)
            /\ pret.panicked =>
                  /\ pg.TotalData = pret.n
                  /\ pg.TotalPage = pret.prev.TotalPage
                  /\ pg.Page = pret.prev.Page
                  /\ pg.PageSize = 0)
    /\ [](pret.op = "SetDefault" => pg.PageSize # 0)
    /\ [][(pg.PageSize # 0 /\ pg'.PageSize = 0) =>
             pret'.op = "AssignPageSize" /\ pret'.n = 0]_vars
    /\ [][(pret.op = "SetDefault" /\ pret'.op = "SetTotal") => ~pret'.panicked]_vars

C26_Witness ==
    /\ pret.op = "SetTotal"
    /\ pret.panicked
    /\ pret.n = 41
    /\ pg.TotalData = 41
    /\ pret.prev.TotalData = 20
    /\ pg.TotalPage = 1
    /\ pg.PageSize = 0

----------------------------------------------------------------------------
(* logger and grace: further claims *)

\* how many fields of a line hold an id of the given kind ("trace", "span")
IdFields(line, kind) ==
    Cardinality({j \in DOMAIN line.fields : line.fields[j].val[1] = kind})

\* C29: every line written, also by a child of a child made by WithContext
\* with valid spans, has at most one field holding a trace id and at most one
\* holding a span id.
C29_OneTraceOneSpanField ==
    \A w \in Writers : \A i \in DOMAIN sinks[w] :
        /\ IdFields(sinks[w][i], "trace") <= 1
        /\ IdFields(sinks[w][i], "span") <= 1

\* a SIGINT or SIGTERM reaches the process in this step
SignalArrives == gsig'.delivered = gsig.delivered + 1

ShutdownWait == gmain.pc \in {"shutdown", "shutting down"}

\* C30: a signal that arrives while Shutdown is awaited is put in quit or
\* dropped and changes nothing else: the process goes on, the server and the
\* wait are as before; the registration of quit is never removed; the Serve
\* function returns from the wait only, when no request is in flight or 30
\* seconds have passed; when it returns on the deadline, the error is the
\* context's and the requests in flight are still there.
C30_SignalsDuringShutdown ==
    /\ [][(SignalArrives /\ ShutdownWait) =>
             /\ gmain' = gmain
             /\ gsrv' = gsrv
             /\ gsig'.registered]_vars
    /\ [][gsig.registered => gsig'.registered]_vars
    /\ [][ShutdownWait => gmain'.pc # "killed"]_vars
    /\ [][(gmain.pc # "returned" /\ gmain'.pc = "returned") =>
             /\ gmain.pc = "shutting down"
             /\ gsrv.inflight = 0 \/ gsrv.elapsed >= ShutdownTimeout
             /\ gsrv' = gsrv
             /\ gsrv.inflight > 0 => gmain'.ret = "context deadline exceeded"]_vars

C30_Witness ==
    /\ gmain.pc = "shutting down"
    /\ gsig.delivered = 2
    /\ gsig.quit = 1
    /\ gsig.registered
    /\ gsrv.inflight = 1
    /\ gsrv.elapsed >= ShutdownTimeout

====
